---------------------------- MODULE Spec2Model ----------------------------
(***************************************************************************)
(* A model of the text-transformation pipeline of build.py: frontmatter    *)
(* parsing, sidenote expansion, the fallback markdown converter and the    *)
(* heading/ToC extractor.                                                  *)
(*                                                                         *)
(* A Python string is a sequence of one-character strings.  A literal      *)
(* that the program only ever emits and never scans again (a fixed piece   *)
(* of an error message or of generated markup) may be kept as one element  *)
(* of the sequence.                                                        *)
(***************************************************************************)
EXTENDS Integers, Sequences, FiniteSets, TLC

VARIABLES
    pc,                 \* the position of the running call
    arg,                \* the argument the running call was made with
    content,            \* parse_frontmatter: the raw document
    filepath,           \* parse_frontmatter: the origin, or None
    frontmatter,        \* parse_frontmatter: the returned mapping
    body,               \* parse_frontmatter: the returned body
    error,              \* the exception raised, or None
    html,               \* convert_sidenotes / extract_headings: the working html
    sidenote_counter,   \* convert_sidenotes: sidenote_counter[0]
    calls,              \* number of calls completed
    headings,           \* markdown_to_html: the list of extracted headings
    text,               \* basic_markdown_to_html: the working text
    code_blocks,        \* basic_markdown_to_html: the saved code blocks
    warnings,           \* validate_frontmatter: the returned warnings
    context,            \* render_template / page assembly: the context
    toc_html,           \* page assembly: the generated table of contents
    has_toc,            \* page assembly: the ToC display flag
    world,              \* build: the files found on disk, fixed during a run
    lang,               \* build: index of the language being built, 0 if none
    queue,              \* build: the slugs the running loop has still to visit
    posts,              \* build: the metadata of the posts built
    errors,             \* build: the error list
    output,             \* build: the files of the output directory
    returned,           \* build: the value returned, if any
    total_posts,        \* build: the counter of posts
    total_pages,        \* build: the counter of pages
    text_lines,         \* _convert_lists: lines, the lines of the text
    line_no,            \* _convert_lists: number of lines processed
    result,             \* _convert_lists: the output lines
    in_list,            \* _convert_lists: whether a list is being collected
    list_kind,          \* _convert_lists: list_type, the kind of that list
    list_items          \* _convert_lists: the items collected

vars == <<pc, arg, content, filepath, frontmatter, body, error, html,
          sidenote_counter, calls, headings, text, code_blocks,
          warnings, context, toc_html, has_toc,
          world, lang, queue, posts, errors, output, returned, total_posts,
          total_pages,
          text_lines, line_no, result, in_list, list_kind, list_items>>

fmVars == <<content, filepath, frontmatter, body, error>>
snVars == <<sidenote_counter>>
hdVars == <<headings>>
mdVars == <<text, code_blocks>>
pgVars == <<warnings, context, toc_html, has_toc>>
bdVars == <<world, lang, queue, posts, errors, output, returned, total_posts,
            total_pages>>
lsVars == <<text_lines, line_no, result, in_list, list_kind, list_items>>

\* Python's None, where a path or an exception is expected: no path has an
\* empty string form, and no exception an empty type.
NoPath == <<>>
NoError == [type |-> "None", msg |-> <<>>]

\* the variables of build() while no build runs
NoBuild ==
    /\ world = <<>>
    /\ lang = 0
    /\ queue = <<>>
    /\ posts = <<>>
    /\ errors = <<>>
    /\ output = {}
    /\ returned = "none"
    /\ total_posts = 0
    /\ total_pages = 0

\* the variables of the list scanner while it does not run
NoScan ==
    /\ text_lines = <<>>
    /\ line_no = 0
    /\ result = <<>>
    /\ in_list = FALSE
    /\ list_kind = <<>>
    /\ list_items = <<>>

-----------------------------------------------------------------------------
(* Bounds of the model.                                                    *)

MaxLines == 3
MaxItems == 4
MaxCalls == 2
MaxElems == 2
MaxRounds == 2
MaxBlocks == 3
MaxAtoms == 2
MaxRows == 4
MaxSections == 3
MaxFaults == 2
MaxTokens == 5
MaxListLines == 4

-----------------------------------------------------------------------------
(* Python's str and list primitives.                                       *)

Whitespace == {" ", "\n", "\t"}

SeqsUpTo(S, n) == UNION {[1..k -> S] : k \in 0..n}

RECURSIVE Concat(_)
Concat(ss) == IF ss = <<>> THEN <<>> ELSE Head(ss) \o Concat(Tail(ss))

\* f(x), the argument being evaluated once, before the call (Python's
\* evaluation order)
Then(x, f(_)) == CHOOSE y \in {f(v) : v \in {x}} : TRUE

RECURSIVE Join(_, _)
Join(ss, sep) ==
    IF ss = <<>> THEN <<>>
    ELSE IF Len(ss) = 1 THEN ss[1]
    ELSE ss[1] \o sep \o Join(Tail(ss), sep)

StartsAt(s, pat, i) ==
    /\ i >= 1
    /\ i + Len(pat) - 1 <= Len(s)
    /\ \A k \in 1..Len(pat) : s[i + k - 1] = pat[k]

StartsWith(s, pat) == StartsAt(s, pat, 1)

EndsWith(s, pat) == StartsAt(s, pat, Len(s) - Len(pat) + 1)

\* str.find(pat, i), 1-based; 0 when there is no occurrence at or after i
Find(s, pat, i) ==
    LET C == {j \in i..(Len(s) - Len(pat) + 1) : StartsAt(s, pat, j)}
    IN  IF C = {} THEN 0 ELSE CHOOSE j \in C : \A k \in C : j <= k

Contains(s, pat) == Find(s, pat, 1) # 0

From(s, i) == SubSeq(s, i, Len(s))

RECURSIVE Split(_, _, _)
Split(s, sep, maxsplit) ==
    LET p == Find(s, sep, 1)
    IN  IF maxsplit = 0 \/ p = 0 THEN <<s>>
        ELSE <<SubSeq(s, 1, p - 1)>> \o Split(From(s, p + Len(sep)), sep, maxsplit - 1)

RECURSIVE LStrip(_, _)
LStrip(s, chars) ==
    IF s # <<>> /\ Head(s) \in chars THEN LStrip(Tail(s), chars) ELSE s

RECURSIVE RStrip(_, _)
RStrip(s, chars) ==
    IF s # <<>> /\ s[Len(s)] \in chars
    THEN RStrip(SubSeq(s, 1, Len(s) - 1), chars) ELSE s

StripChars(s, chars) == RStrip(LStrip(s, chars), chars)

Strip(s) == StripChars(s, Whitespace)

Digits == <<"0", "1", "2", "3", "4", "5", "6", "7", "8", "9">>

RECURSIVE IntToStr(_)
IntToStr(n) ==
    IF n < 10 THEN <<Digits[n + 1]>>
    ELSE IntToStr(n \div 10) \o <<Digits[(n % 10) + 1]>>

SetOf(seq) == {seq[i] : i \in 1..Len(seq)}

DictSet(d, k, v) == [x \in (DOMAIN d) \cup {k} |-> IF x = k THEN v ELSE d[x]]

EmptyDict == [x \in {} |-> x]

-----------------------------------------------------------------------------
(* parse_frontmatter                                                       *)

Delim == <<"-", "-", "-">>

\* Mutant of Location: the origin is left out of the message.
LocationDropped(fp) == <<>>

Location(fp) == IF fp # NoPath THEN <<" in ">> \o fp ELSE <<>>

MalformedError(location) ==
    [type |-> "FrontmatterError",
     msg  |-> <<"Malformed frontmatter">> \o location
              \o <<": missing closing '---'">>]

InvalidLineError(location, line_num, line) ==
    [type |-> "FrontmatterError",
     msg  |-> <<"Invalid frontmatter">> \o location \o <<" at line ">>
              \o IntToStr(line_num) \o <<": ">>
              \o <<"expected 'key: value', got '">> \o line \o <<"'">>]

\* Mutant of StripQuotes: only double quotes are stripped.
StripQuotesDoubleOnly(value) == StripChars(Strip(value), {"\""})

StripQuotes(value) == StripChars(StripChars(Strip(value), {"\""}), {"'"})

\* Mutant of SplitDelim: the split is not limited to two cuts.
SplitDelimUnlimited(doc) == Split(doc, Delim, -1)

SplitDelim(doc) == Split(doc, Delim, 2)

RECURSIVE ParseLines(_, _, _, _)
ParseLines(lines, line_num, fm, location) ==
    IF lines = <<>> THEN [error |-> NoError, frontmatter |-> fm]
    ELSE LET line == Strip(Head(lines))
         IN  IF line = <<>>
             THEN ParseLines(Tail(lines), line_num + 1, fm, location)
             ELSE IF ~Contains(line, <<":">>)
             THEN [error |-> InvalidLineError(location, line_num, line),
                   frontmatter |-> fm]
             ELSE LET kv == Split(line, <<":">>, 1)
                  IN  ParseLines(Tail(lines), line_num + 1,
                                 DictSet(fm, Strip(kv[1]), StripQuotes(kv[2])),
                                 location)

FirstLineNum == 2

\* the branch of parse_frontmatter taken when the document starts with the
\* delimiter
ParseHeader(doc, location) ==
    LET parts == SplitDelim(doc)
    IN  IF Len(parts) < 3
        THEN [error |-> MalformedError(location),
              frontmatter |-> EmptyDict, body |-> <<>>]
        ELSE LET fm_text == Strip(parts[2])
                 r == ParseLines(Split(fm_text, <<"\n">>, -1),
                                 FirstLineNum, EmptyDict, location)
             IN  IF r.error # NoError
                 THEN [error |-> r.error,
                       frontmatter |-> EmptyDict, body |-> <<>>]
                 ELSE [error |-> NoError,
                       frontmatter |-> r.frontmatter,
                       body |-> Strip(parts[3])]

\* Mutant of parse_frontmatter: a document without frontmatter is trimmed.
parse_frontmatter_trimmed(doc, fp) ==
    IF ~StartsWith(doc, Delim)
    THEN [error |-> NoError, frontmatter |-> EmptyDict, body |-> Strip(doc)]
    ELSE ParseHeader(doc, Location(fp))

parse_frontmatter(doc, fp) ==
    IF ~StartsWith(doc, Delim)
    THEN [error |-> NoError, frontmatter |-> EmptyDict, body |-> doc]
    ELSE ParseHeader(doc, Location(fp))

\* The documents parse_frontmatter is called with: an opening line, up to
\* MaxLines header lines, and a tail (closing delimiter and body).
K == <<"k", ":">>
HeaderLines ==
    { <<>>,
      <<"b", "a", "d">>,
      K \o <<" ", "v">>,
      K \o <<" ", "\"", "v", "\"">>,
      <<"j", " ", ":", " ", "'", "v", "'", " ">>,
      K \o <<"\"", "v">>,
      K \o <<" ", "'", "\"", "v", "\"", "'">>,
      K \o <<"\"", "\"", "v", ":", "\"", "\"">> }

Openers == { Delim \o <<"\n">>, Delim, <<>> }

Tails ==
    { <<>>,
      <<"\n", "b">>,
      <<"\n">> \o Delim \o <<"\n", "b", "\n">>,
      <<"\n">> \o Delim \o <<" ", "b">> \o Delim \o <<"c">> \o Delim \o <<"\n">> }

Documents ==
    { o \o Join(ls, <<"\n">>) \o t :
        o \in Openers, ls \in SeqsUpTo(HeaderLines, MaxLines), t \in Tails }

Origins == { NoPath, <<"p", ".", "m", "d">> }

InitFrontmatter ==
    /\ NoBuild
    /\ NoScan
    /\ pc = "parse_frontmatter"
    /\ content \in Documents
    /\ filepath \in Origins
    /\ arg = content
    /\ frontmatter = EmptyDict
    /\ body = <<>>
    /\ error = NoError
    /\ html = <<>>
    /\ sidenote_counter = 0
    /\ calls = 0
    /\ headings = <<>>
    /\ text = <<>>
    /\ code_blocks = <<>>
    /\ warnings = <<>>
    /\ context = EmptyDict
    /\ toc_html = <<>>
    /\ has_toc = FALSE

ParseReturns ==
    /\ pc = "parse_frontmatter"
    /\ LET r == parse_frontmatter(content, filepath)
       IN  /\ r.error = NoError
           /\ frontmatter' = r.frontmatter
           /\ body' = r.body
           /\ error' = NoError
    /\ pc' = "returned"
    /\ UNCHANGED <<bdVars, lsVars, arg, content, filepath, html, calls, snVars, hdVars, mdVars,
                   pgVars>>

ParseRaises ==
    /\ pc = "parse_frontmatter"
    /\ LET r == parse_frontmatter(content, filepath)
       IN  /\ r.error # NoError
           /\ error' = r.error
    /\ pc' = "raised"
    /\ UNCHANGED <<bdVars, lsVars, arg, content, filepath, frontmatter, body, html, calls,
                   snVars, hdVars, mdVars, pgVars>>

NextFrontmatter == ParseReturns \/ ParseRaises

SpecFrontmatter == InitFrontmatter /\ [][NextFrontmatter]_vars

-----------------------------------------------------------------------------
(* Properties of parse_frontmatter.                                        *)

Quotes == {"'", "\""}

Last(s) == s[Len(s)]

\* 1-based offset of the closing delimiter: the first occurrence of '---'
\* after the opening one; 0 when there is none
CloseAt(doc) == Find(doc, Delim, Len(Delim) + 1)

HasHeader(doc) == StartsWith(doc, Delim) /\ CloseAt(doc) # 0

\* the text between the two delimiters, cut at every line break
RawHeaderLines(doc) ==
    Split(SubSeq(doc, Len(Delim) + 1, CloseAt(doc) - 1), <<"\n">>, -1)

KeyOf(line) == Strip(SubSeq(line, 1, Find(line, <<":">>, 1) - 1))

ValueOf(line) == Strip(From(line, Find(line, <<":">>, 1) + 1))

\* the trimmed source text of the value the mapping keeps for key k: that of
\* the last header line with this key
RawValue(doc, k) ==
    LET ls == RawHeaderLines(doc)
        I  == {i \in 1..Len(ls) : Contains(ls[i], <<":">>) /\ KeyOf(ls[i]) = k}
    IN  ValueOf(ls[CHOOSE i \in I : \A j \in I : j <= i])

SameQuoteBothEnds(v) == Len(v) >= 2 /\ Head(v) \in Quotes /\ Head(v) = Last(v)

StripOneLayer(v) ==
    IF SameQuoteBothEnds(v) THEN SubSeq(v, 2, Len(v) - 1) ELSE v

\* C6 as stated: for a document with a well-formed header, no value of the
\* returned metadata both starts and ends with the same quote character.
C6_NoValueKeepsMatchingQuotes ==
    (pc = "returned" /\ HasHeader(content)) =>
        \A k \in DOMAIN frontmatter : ~SameQuoteBothEnds(frontmatter[k])

\* C6 as amended: no value of the returned metadata starts or ends with a
\* single quote, and a value both starts and ends with a double quote only
\* when its source value holds a single quote (double quotes enclosed in
\* single quotes, as in '"v"', are kept).
C6_QuotesStrippedExceptNested ==
    (pc = "returned" /\ HasHeader(content)) =>
        \A k \in DOMAIN frontmatter :
            LET v == frontmatter[k]
            IN  /\ v # <<>> => (Head(v) # "'" /\ Last(v) # "'")
                /\ SameQuoteBothEnds(v) =>
                       /\ Head(v) = "\""
                       /\ Contains(RawValue(content, k), <<"'">>)

\* C6's case: a value quoted in the source is returned without its quotes.
C6_Witness ==
    /\ pc = "returned"
    /\ HasHeader(content)
    /\ \E k \in DOMAIN frontmatter :
          /\ SameQuoteBothEnds(RawValue(content, k))
          /\ frontmatter[k] = StripOneLayer(RawValue(content, k))
          /\ ~SameQuoteBothEnds(frontmatter[k])

NoClosingDelimiter(doc) == StartsWith(doc, Delim) /\ CloseAt(doc) = 0

\* C7: a document that starts with '---' and has no closing delimiter makes
\* parse_frontmatter raise FrontmatterError, without returning metadata or
\* body, and the message contains the origin when one is given.
C7_MissingCloseRaises ==
    (pc # "parse_frontmatter" /\ NoClosingDelimiter(content)) =>
        /\ pc = "raised"
        /\ error.type = "FrontmatterError"
        /\ Contains(error.msg, <<": missing closing '---'">>)
        /\ frontmatter = EmptyDict /\ body = <<>>
        /\ filepath # NoPath => Contains(error.msg, filepath)

C7_Witness ==
    /\ pc = "raised"
    /\ NoClosingDelimiter(content)
    /\ Len(content) > Len(Delim)
    /\ filepath # NoPath

\* the number, counting the opening delimiter line as line 1, of the first
\* non-blank header line without ':' (the region between the delimiters
\* starts on line 1, so its i-th line is line i of the document)
OffendingLine(doc) ==
    LET ls == RawHeaderLines(doc)
        I  == {i \in 1..Len(ls) :
                  Strip(ls[i]) # <<>> /\ ~Contains(ls[i], <<":">>)}
    IN  CHOOSE i \in I : \A j \in I : i <= j

InvalidLineRaised ==
    pc = "raised" /\ HasHeader(content)

\* C8 as stated: when a non-blank header line has no ':', the FrontmatterError
\* names the 1-based line number of that line in the document, the opening
\* delimiter line being line 1, wherever blank lines are placed; the message
\* contains the origin when given.
C8_ErrorNamesDocumentLine ==
    (InvalidLineRaised /\ StartsWith(content, Delim \o <<"\n">>)) =>
        /\ error.type = "FrontmatterError"
        /\ Contains(error.msg, <<" at line ">>
                               \o IntToStr(OffendingLine(content)) \o <<": ">>)
        /\ filepath # NoPath => Contains(error.msg, filepath)

\* C9 as stated: exactly one layer of surrounding quotes is stripped from a
\* value, and only when the same quote character is on both ends.
C9_OneMatchedLayerStripped ==
    (pc = "returned" /\ HasHeader(content)) =>
        \A k \in DOMAIN frontmatter :
            frontmatter[k] = StripOneLayer(RawValue(content, k))

\* C10: for a document with a well-formed header the returned body is the
\* document's content after the second occurrence of the delimiter, trimmed;
\* later occurrences of '---' stay in the body.
C10_BodyIsRestAfterSecondDelimiter ==
    (pc = "returned" /\ HasHeader(content)) =>
        body = Strip(From(content, CloseAt(content) + Len(Delim)))

C10_Witness ==
    /\ pc = "returned"
    /\ HasHeader(content)
    /\ DOMAIN frontmatter # {}
    /\ Contains(body, Delim)

\* C11: a document that does not start with the three-character delimiter at
\* offset 0 never makes parse_frontmatter fail, and is returned as the body
\* unchanged (not trimmed) with an empty metadata mapping.
C11_NoHeaderPassesThrough ==
    ~(Len(content) >= 3 /\ \A i \in 1..3 : content[i] = "-") =>
        /\ pc # "raised"
        /\ parse_frontmatter(content, filepath).error = NoError
        /\ pc = "returned" => frontmatter = EmptyDict /\ body = content

\* C11 witness: a document without frontmatter that has leading and trailing
\* whitespace and a later delimiter was returned.
C11_Witness ==
    /\ pc = "returned"
    /\ ~StartsWith(content, Delim)
    /\ content # <<>>
    /\ content[1] \in Whitespace
    /\ Last(content) \in Whitespace
    /\ Contains(content, Delim)
    /\ body = content

-----------------------------------------------------------------------------
(* convert_sidenotes                                                       *)

SnOpen  == <<"{", "s", "n", "}">>
SnClose == <<"{", "/", "s", "n", "}">>
MnOpen  == <<"{", "m", "n", "}">>
MnClose == <<"{", "/", "m", "n", "}">>

NoteId(kind, n) == kind \o <<"-">> \o IntToStr(n)

InputOpen == <<"<input type=\"checkbox\" id=\"">>
InputClose == <<"\" class=\"margin-toggle\"/>">>

replace_sidenote(n, inner) ==
    <<"<label for=\"">> \o NoteId(<<"s", "n">>, n)
    \o <<"\" class=\"margin-toggle sidenote-number\"></label>">>
    \o InputOpen \o NoteId(<<"s", "n">>, n) \o InputClose
    \o <<"<span class=\"sidenote\">">> \o inner \o <<"</span>">>

replace_marginnote(n, inner) ==
    <<"<label for=\"">> \o NoteId(<<"m", "n">>, n)
    \o <<"\" class=\"margin-toggle\">&#8853;</label>">>
    \o InputOpen \o NoteId(<<"m", "n">>, n) \o InputClose
    \o <<"<span class=\"marginnote\">">> \o inner \o <<"</span>">>

ReplaceNote(kind, n, inner) ==
    IF kind = "sn" THEN replace_sidenote(n, inner)
    ELSE replace_marginnote(n, inner)

\* re.sub(open(.*?)close, replace, s, flags=re.DOTALL) with the replacement
\* function incrementing the counter at each match, left to right: a match
\* starts at the first open tag that a close tag follows and ends at the
\* first such close tag; the scan goes on after the match.
RECURSIVE SubNotes(_, _, _, _, _)
SubNotes(s, open, close, kind, counter) ==
    LET p == Find(s, open, 1)
        q == IF p = 0 THEN 0 ELSE Find(s, close, p + Len(open))
    IN  IF q = 0 THEN [html |-> s, counter |-> counter]
        ELSE LET rest == SubNotes(From(s, q + Len(close)), open, close,
                                  kind, counter + 1)
             IN  [html |-> SubSeq(s, 1, p - 1)
                           \o ReplaceNote(kind, counter + 1,
                                          SubSeq(s, p + Len(open), q - 1))
                           \o rest.html,
                  counter |-> rest.counter]

\* Mutant of SubSn: the sidenotes are numbered, but the counter the
\* marginnotes go on from is not advanced.
SubSnCounterNotAdvanced(h, counter) ==
    [html |-> SubNotes(h, SnOpen, SnClose, "sn", counter).html,
     counter |-> counter]

SubSn(h, counter) == SubNotes(h, SnOpen, SnClose, "sn", counter)

\* Mutant of SubMn: the marginnotes are counted by a counter of their own.
SubMnOwnCounter(h, counter) == SubNotes(h, MnOpen, MnClose, "mn", 0)

SubMn(h, counter) == SubNotes(h, MnOpen, MnClose, "mn", counter)

\* The html convert_sidenotes is called with: up to MaxItems pieces, each a
\* whole span, a piece of text or a stray tag.
NoteItems ==
    { SnOpen \o <<"a">> \o SnClose,
      MnOpen \o <<"b">> \o MnClose,
      <<"x">>,
      SnOpen, SnClose, MnOpen, MnClose }

NoteInputs == { Concat(items) : items \in SeqsUpTo(NoteItems, MaxItems) }

InitSidenotes ==
    /\ NoBuild
    /\ NoScan
    /\ pc = "idle"
    /\ arg = <<>>
    /\ html = <<>>
    /\ sidenote_counter = 0
    /\ calls = 0
    /\ content = <<>>
    /\ filepath = NoPath
    /\ frontmatter = EmptyDict
    /\ body = <<>>
    /\ error = NoError
    /\ headings = <<>>
    /\ text = <<>>
    /\ code_blocks = <<>>
    /\ warnings = <<>>
    /\ context = EmptyDict
    /\ toc_html = <<>>
    /\ has_toc = FALSE

\* convert_sidenotes(html): sidenote_counter = [0]
CallConvertSidenotes ==
    /\ pc = "idle"
    /\ calls < MaxCalls
    /\ \E h \in NoteInputs : arg' = h /\ html' = h
    /\ sidenote_counter' = 0
    /\ pc' = "sub_sn"
    /\ UNCHANGED <<bdVars, lsVars, calls, fmVars, hdVars, mdVars, pgVars>>

SubSidenotes ==
    /\ pc = "sub_sn"
    /\ LET r == SubSn(html, sidenote_counter)
       IN  html' = r.html /\ sidenote_counter' = r.counter
    /\ pc' = "sub_mn"
    /\ UNCHANGED <<bdVars, lsVars, arg, calls, fmVars, hdVars, mdVars, pgVars>>

SubMarginnotes ==
    /\ pc = "sub_mn"
    /\ LET r == SubMn(html, sidenote_counter)
       IN  html' = r.html /\ sidenote_counter' = r.counter
    /\ pc' = "return"
    /\ UNCHANGED <<bdVars, lsVars, arg, calls, fmVars, hdVars, mdVars, pgVars>>

\* return html: the counter dies with the call
ReturnSidenotes ==
    /\ pc = "return"
    /\ pc' = "idle"
    /\ calls' = calls + 1
    /\ sidenote_counter' = 0
    /\ arg' = <<>>
    /\ html' = <<>>
    /\ UNCHANGED <<bdVars, lsVars, fmVars, hdVars, mdVars, pgVars>>

NextSidenotes ==
    \/ CallConvertSidenotes
    \/ SubSidenotes
    \/ SubMarginnotes
    \/ ReturnSidenotes

SpecSidenotes == InitSidenotes /\ [][NextSidenotes]_vars

-----------------------------------------------------------------------------
(* Properties of convert_sidenotes.                                        *)

\* the start offsets, in increasing order, of the spans open...close of s
RECURSIVE SpanStarts(_, _, _, _)
SpanStarts(s, open, close, from) ==
    LET p == Find(s, open, from)
        q == IF p = 0 THEN 0 ELSE Find(s, close, p + Len(open))
    IN  IF q = 0 THEN <<>>
        ELSE <<p>> \o SpanStarts(s, open, close, q + Len(close))

\* the ids of the checkbox inputs of h, in document order
RECURSIVE NoteIdsIn(_)
NoteIdsIn(h) ==
    LET p == Find(h, InputOpen, 1)
        q == IF p = 0 THEN 0 ELSE Find(h, InputClose, p + 1)
    IN  IF q = 0 THEN <<>>
        ELSE <<SubSeq(h, p + 1, q - 1)>> \o NoteIdsIn(From(h, q + 1))

\* the number of elements of seq that are smaller than or equal to x
RankIn(seq, x) == Cardinality({i \in 1..Len(seq) : seq[i] <= x})

\* the spans of both kinds of the input, in document order: the kind of the
\* k-th one and its rank among the spans of its own kind
SpansInOrder(s) ==
    LET sn  == SpanStarts(s, SnOpen, SnClose, 1)
        mn  == SpanStarts(s, MnOpen, MnClose, 1)
        all == SetOf(sn) \cup SetOf(mn)
    IN  [k \in 1..Cardinality(all) |->
            LET p == CHOOSE x \in all : Cardinality({y \in all : y <= x}) = k
            IN  IF p \in SetOf(sn)
                THEN [kind |-> <<"s", "n">>, rank |-> RankIn(sn, p)]
                ELSE [kind |-> <<"m", "n">>, rank |-> RankIn(mn, p)]]

NumSidenotes(s) == Len(SpanStarts(s, SnOpen, SnClose, 1))

-----------------------------------------------------------------------------
(* extract_headings, add_heading_ids                                       *)

UpperCase == <<"A", "B", "C", "D", "E", "F", "G", "H", "I", "J", "K", "L", "M",
               "N", "O", "P", "Q", "R", "S", "T", "U", "V", "W", "X", "Y", "Z">>
LowerCase == <<"a", "b", "c", "d", "e", "f", "g", "h", "i", "j", "k", "l", "m",
               "n", "o", "p", "q", "r", "s", "t", "u", "v", "w", "x", "y", "z">>

\* \w
WordChars == SetOf(UpperCase) \cup SetOf(LowerCase) \cup SetOf(Digits) \cup {"_"}

LowerChar(c) ==
    IF c \in SetOf(UpperCase)
    THEN LowerCase[CHOOSE i \in 1..Len(UpperCase) : UpperCase[i] = c]
    ELSE c

\* str.lower
Lower(s) == [i \in 1..Len(s) |-> LowerChar(s[i])]

\* the first offset at or after i whose character is not in chars
\* (Len(s) + 1 when there is none)
SkipChars(s, chars, i) ==
    LET C == {j \in i..Len(s) : s[j] \notin chars}
    IN  IF C = {} THEN Len(s) + 1 ELSE CHOOSE j \in C : \A k \in C : j <= k

\* re.sub(r"<[^>]+>", "", t)
RECURSIVE StripTags(_)
StripTags(t) ==
    LET p == Find(t, <<"<">>, 1)
    IN  IF p = 0 THEN t
        ELSE IF p < Len(t) /\ t[p + 1] # ">"
        THEN LET q == Find(t, <<">">>, p + 1)
             IN  IF q = 0 THEN t
                 ELSE SubSeq(t, 1, p - 1) \o StripTags(From(t, q + 1))
        ELSE SubSeq(t, 1, p) \o StripTags(From(t, p + 1))

\* re.sub(r"[^\w\s-]", "", t)
RECURSIVE KeepSlugChars(_)
KeepSlugChars(t) ==
    IF t = <<>> THEN <<>>
    ELSE IF Head(t) \in WordChars \cup Whitespace \cup {"-"}
    THEN <<Head(t)>> \o KeepSlugChars(Tail(t))
    ELSE KeepSlugChars(Tail(t))

\* re.sub(r"[\s]+", "-", t)
RECURSIVE HyphenateSpaces(_)
HyphenateSpaces(t) ==
    IF t = <<>> THEN <<>>
    ELSE IF Head(t) \in Whitespace
    THEN <<"-">> \o HyphenateSpaces(From(t, SkipChars(t, Whitespace, 1)))
    ELSE <<Head(t)>> \o HyphenateSpaces(Tail(t))

Slug(clean_text) == HyphenateSpaces(KeepSlugChars(Lower(clean_text)))

IdAttr == <<"i", "d", "=", "\"">>

HClose(level) == <<"<", "/", "h", level, ">">>

IsHOpen(s, p) ==
    /\ p + 2 <= Len(s)
    /\ s[p] = "<" /\ s[p + 1] = "h" /\ s[p + 2] \in {"2", "3"}

\* (?:\s+id="([^"]*)") at offset i: whether it matches, the id it captures
\* and the offset after it
IdGroup(s, i) ==
    LET j == SkipChars(s, Whitespace, i)
        k == IF j > i /\ StartsAt(s, IdAttr, j)
             THEN Find(s, <<"\"">>, j + Len(IdAttr)) ELSE 0
    IN  IF k = 0 THEN [ok |-> FALSE, id |-> <<>>, next |-> i]
        ELSE [ok |-> TRUE, id |-> SubSeq(s, j + Len(IdAttr), k - 1),
              next |-> k + 1]

NoMatch == [ok |-> FALSE]

\* [^>]*>(.*?)</h\1> at offset i, for extract_headings' pattern
ExtractRest(s, p, i, has_id, id) ==
    LET gt == Find(s, <<">">>, i)
        cl == IF gt = 0 THEN 0 ELSE Find(s, HClose(s[p + 2]), gt + 1)
    IN  IF cl = 0 THEN NoMatch
        ELSE [ok |-> TRUE, level |-> s[p + 2], has_id |-> has_id,
              existing_id |-> id, attrs |-> SubSeq(s, i, gt - 1),
              inner |-> SubSeq(s, gt + 1, cl - 1), start |-> p,
              end |-> cl + Len(HClose(s[p + 2])) - 1]

\* the match of <h([23])(?:\s+id="([^"]*)")?[^>]*>(.*?)</h\1> at offset p:
\* the id group is tried first, and given up when the rest fails with it
ExtractMatchAt(s, p) ==
    IF ~IsHOpen(s, p) THEN NoMatch
    ELSE LET g == IdGroup(s, p + 3)
             a == IF g.ok THEN ExtractRest(s, p, g.next, TRUE, g.id)
                  ELSE NoMatch
         IN  IF a.ok THEN a ELSE ExtractRest(s, p, p + 3, FALSE, <<>>)

\* (\s[^>]*)?>(.+?)</h\1> at offset i, for add_heading_ids' pattern
InjectRest(s, p, i, has_id, id) ==
    LET gt == IF i > Len(s) THEN 0
              ELSE IF s[i] = ">" THEN i
              ELSE IF s[i] \in Whitespace THEN Find(s, <<">">>, i + 1)
              ELSE 0
        cl == IF gt = 0 THEN 0 ELSE Find(s, HClose(s[p + 2]), gt + 2)
    IN  IF cl = 0 THEN NoMatch
        ELSE [ok |-> TRUE, level |-> s[p + 2], has_id |-> has_id,
              existing_id |-> id, attrs |-> SubSeq(s, i, gt - 1),
              inner |-> SubSeq(s, gt + 1, cl - 1), start |-> p,
              end |-> cl + Len(HClose(s[p + 2])) - 1]

\* the match of <h([23])(?:\s+id="([^"]*)")?(\s[^>]*)?>(.+?)</h\1> at p
InjectMatchAt(s, p) ==
    IF ~IsHOpen(s, p) THEN NoMatch
    ELSE LET g == IdGroup(s, p + 3)
             a == IF g.ok THEN InjectRest(s, p, g.next, TRUE, g.id)
                  ELSE NoMatch
         IN  IF a.ok THEN a ELSE InjectRest(s, p, p + 3, FALSE, <<>>)

\* re.finditer(pattern, html, re.DOTALL) for extract_headings' pattern
RECURSIVE ExtractMatches(_, _)
ExtractMatches(s, p) ==
    LET C == {j \in p..Len(s) : ExtractMatchAt(s, j).ok}
    IN  IF C = {} THEN <<>>
        ELSE LET m == ExtractMatchAt(s, CHOOSE j \in C : \A k \in C : j <= k)
             IN  <<m>> \o ExtractMatches(s, m.end + 1)

HeadingOf(m) ==
    LET clean_text == Strip(StripTags(m.inner))
    IN  [level |-> m.level,
         id    |-> IF m.existing_id # <<>> THEN m.existing_id
                   ELSE Slug(clean_text),
         text  |-> clean_text]

extract_headings(h) ==
    LET ms == ExtractMatches(h, 1)
    IN  [i \in 1..Len(ms) |-> HeadingOf(ms[i])]

\* add_id(match), with heading = hs[heading_index] already taken
add_id(s, m, heading) ==
    IF m.existing_id # <<>> THEN SubSeq(s, m.start, m.end)
    ELSE <<"<", "h", m.level, " ">> \o IdAttr \o heading.id \o <<"\"">>
         \o m.attrs \o <<">">> \o m.inner \o HClose(m.level)

\* re.sub(pattern, add_id, html, flags=re.DOTALL), heading_index being the
\* 0-based index of the next heading to use
RECURSIVE InjectFrom(_, _, _, _)
InjectFrom(s, p, hs, heading_index) ==
    LET C == {j \in p..Len(s) : InjectMatchAt(s, j).ok}
    IN  IF C = {} THEN From(s, p)
        ELSE LET m == InjectMatchAt(s, CHOOSE j \in C : \A k \in C : j <= k)
             IN  SubSeq(s, p, m.start - 1)
                 \o (IF heading_index >= Len(hs)
                     THEN SubSeq(s, m.start, m.end)
                          \o InjectFrom(s, m.end + 1, hs, heading_index)
                     ELSE add_id(s, m, hs[heading_index + 1])
                          \o InjectFrom(s, m.end + 1, hs, heading_index + 1))

add_heading_ids(h, hs) == InjectFrom(h, 1, hs, 0)

\* The html the extractor is called with: up to MaxElems heading elements,
\* each an opening tag, a content and the closing tag of the same level.
HOpens ==
    { <<"<", "h", "2", ">">>,
      <<"<", "h", "3", ">">>,
      <<"<", "h", "2", " ">> \o IdAttr \o <<"a", "\"", ">">>,
      <<"<", "h", "2", " ">> \o IdAttr \o <<"\"", ">">>,
      <<"<", "h", "2", " ", "c", ">">>,
      <<"<", "h", "2", " ", "c", " ">> \o IdAttr \o <<"b", "\"", ">">>,
      <<"<", "h", "2", "x", ">">>,
      <<"<", "h", "1", ">">> }

HContents ==
    { <<>>,
      <<"A">>,
      <<"!">>,
      <<"A", " ", "b">>,
      <<"<", "b", ">", "A", "<", "/", "b", ">">> }

HElements == { o \o c \o HClose(o[3]) : o \in HOpens, c \in HContents }

HeadingInputs == { Concat(es) : es \in SeqsUpTo(HElements, MaxElems) }

InitHeadings ==
    /\ NoBuild
    /\ NoScan
    /\ pc = "extract"
    /\ arg \in HeadingInputs
    /\ html = arg
    /\ headings = <<>>
    /\ calls = 0
    /\ sidenote_counter = 0
    /\ content = <<>>
    /\ filepath = NoPath
    /\ frontmatter = EmptyDict
    /\ body = <<>>
    /\ error = NoError
    /\ text = <<>>
    /\ code_blocks = <<>>
    /\ warnings = <<>>
    /\ context = EmptyDict
    /\ toc_html = <<>>
    /\ has_toc = FALSE

\* headings = extract_headings(html)
ExtractHeadings ==
    /\ pc = "extract"
    /\ headings' = extract_headings(html)
    /\ pc' = "add_ids"
    /\ UNCHANGED <<bdVars, lsVars, arg, html, calls, fmVars, snVars, mdVars, pgVars>>

\* html = add_heading_ids(html, headings)
AddHeadingIds ==
    /\ pc = "add_ids"
    /\ html' = add_heading_ids(html, headings)
    /\ pc' = "done"
    /\ UNCHANGED <<bdVars, lsVars, arg, headings, calls, fmVars, snVars, mdVars, pgVars>>

\* the extractor and the injector are run again, on their own output
RunAgain ==
    /\ pc = "done"
    /\ calls + 1 < MaxRounds
    /\ arg' = html
    /\ calls' = calls + 1
    /\ pc' = "extract"
    /\ UNCHANGED <<bdVars, lsVars, html, headings, fmVars, snVars, mdVars, pgVars>>

NextHeadings == ExtractHeadings \/ AddHeadingIds \/ RunAgain

SpecHeadings == InitHeadings /\ [][NextHeadings]_vars

-----------------------------------------------------------------------------
(* Properties of extract_headings and add_heading_ids.                     *)

RECURSIVE CountOccurrences(_, _)
CountOccurrences(s, pat) ==
    LET p == Find(s, pat, 1)
    IN  IF p = 0 THEN 0 ELSE 1 + CountOccurrences(From(s, p + Len(pat)), pat)

\* the opening tag of a heading element, from <h to >
OpenTagOf(s, m) == SubSeq(s, m.start, m.end - Len(m.inner) - Len(HClose(m.level)))

\* C2 as stated: running the extractor and the injector again on their own
\* output returns it unchanged, and no h2/h3 element ends up with more than
\* one id attribute.
C2_InjectionIdempotent ==
    pc = "done" =>
        /\ calls >= 1 => html = arg
        /\ \A i \in 1..Len(ExtractMatches(html, 1)) :
               CountOccurrences(OpenTagOf(html, ExtractMatches(html, 1)[i]),
                                IdAttr) <= 1

\* C3 as stated: the injector pairs the i-th h2/h3 element with the i-th
\* extracted heading, so in the output the i-th element carries the id of
\* the i-th extracted heading (stated here for the headings with a non-empty
\* id), and an element that had an id is untouched.
C3_ElementsCarryTheirHeadingId ==
    (pc = "done" /\ calls = 0) =>
        LET before == ExtractMatches(arg, 1)
            after  == ExtractMatches(html, 1)
        IN  /\ Len(after) = Len(headings)
            /\ \A i \in 1..Len(after) :
                   /\ headings[i].id # <<>> =>
                          /\ after[i].has_id
                          /\ after[i].existing_id = headings[i].id
                   /\ before[i].existing_id # <<>> =>
                          SubSeq(html, after[i].start, after[i].end)
                              = SubSeq(arg, before[i].start, before[i].end)

\* C4 as stated: the ids of the headings extracted from one document are
\* pairwise distinct (stated here for the headings with a non-empty id).
C4_HeadingIdsDistinct ==
    pc = "add_ids" =>
        \A i, j \in 1..Len(headings) :
            (i # j /\ headings[i].id # <<>>) => headings[i].id # headings[j].id

-----------------------------------------------------------------------------
(* basic_markdown_to_html                                                  *)

Tag(name) == <<"<">> \o name \o <<">">>

CloseTag(name) == <<"<", "/">> \o name \o <<">">>

NL == <<"\n">>

\* the grave accent character (U+0060), which a string literal cannot hold
Backtick == "grave"

Fence == <<Backtick, Backtick, Backtick>>

PlaceholderHead ==
    <<"_", "_", "C", "O", "D", "E", "_", "B", "L", "O", "C", "K", "_">>

\* f"__CODE_BLOCK_{i}__"
Placeholder(i) == PlaceholderHead \o IntToStr(i) \o <<"_", "_">>

\* re.sub(<fence>(\w*)\n(.*?)<fence>, save_code_block, text, flags=re.DOTALL),
\* n being len(code_blocks) when the scan reaches offset from
RECURSIVE SaveCodeBlocks(_, _, _)
SaveCodeBlocks(s, from, n) ==
    LET p == Find(s, Fence, from)
    IN  IF p = 0 THEN [text |-> From(s, from), code_blocks |-> <<>>]
        ELSE LET j  == SkipChars(s, WordChars, p + Len(Fence))
                 cl == IF j <= Len(s) /\ s[j] = "\n"
                       THEN Find(s, Fence, j + 1) ELSE 0
             IN  IF cl = 0
                 THEN LET r == SaveCodeBlocks(s, p + 1, n)
                      IN  [text |-> SubSeq(s, from, p) \o r.text,
                           code_blocks |-> r.code_blocks]
                 ELSE LET r == SaveCodeBlocks(s, cl + Len(Fence), n + 1)
                      IN  [text |-> SubSeq(s, from, p - 1) \o Placeholder(n)
                                    \o r.text,
                           code_blocks |-> <<SubSeq(s, j + 1, cl - 1)>>
                                           \o r.code_blocks]

\* one line under re.sub(r"^<prefix>(.+)$", r"<tag>\1</tag>", flags=MULTILINE)
HeaderLine(line, prefix, name) ==
    IF StartsWith(line, prefix) /\ Len(line) > Len(prefix)
    THEN Tag(name) \o From(line, Len(prefix) + 1) \o CloseTag(name)
    ELSE line

HeaderPass(s, prefix, name) ==
    LET lines == Split(s, NL, -1)
    IN  Join([i \in 1..Len(lines) |-> HeaderLine(lines[i], prefix, name)], NL)

Headers(s) ==
    HeaderPass(HeaderPass(HeaderPass(s, <<"#", "#", "#", " ">>, <<"h", "3">>),
                          <<"#", "#", " ">>, <<"h", "2">>),
               <<"#", " ">>, <<"h", "1">>)

\* the offset of the close that ends a lazy (.+?) group starting at offset c:
\* the first close at c + 1 or later, provided no line break comes before
\* it; 0 when there is none
LazyEnd(s, close, c) ==
    LET q  == Find(s, close, c + 1)
        nl == Find(s, NL, c)
    IN  IF q # 0 /\ (nl = 0 \/ q < nl) THEN q ELSE 0

\* re.sub(open(.+?)close, left \1 right, s)
RECURSIVE SubPair(_, _, _, _, _)
SubPair(s, open, close, left, right) ==
    LET p == Find(s, open, 1)
        c == p + Len(open)
        q == IF p = 0 THEN 0 ELSE LazyEnd(s, close, c)
    IN  IF p = 0 THEN s
        ELSE IF q = 0
        THEN SubSeq(s, 1, p) \o SubPair(From(s, p + 1), open, close, left, right)
        ELSE SubSeq(s, 1, p - 1) \o left \o SubSeq(s, c, q - 1) \o right
             \o SubPair(From(s, q + Len(close)), open, close, left, right)

Bold(s) ==
    SubPair(s, <<"*", "*">>, <<"*", "*">>,
            Tag(<<"s", "t", "r", "o", "n", "g">>),
            CloseTag(<<"s", "t", "r", "o", "n", "g">>))

Italic(s) == SubPair(s, <<"*">>, <<"*">>, Tag(<<"e", "m">>), CloseTag(<<"e", "m">>))

InlineCode(s) ==
    SubPair(s, <<Backtick>>, <<Backtick>>, Tag(<<"c", "o", "d", "e">>),
            CloseTag(<<"c", "o", "d", "e">>))

\* the link substitution: [label](url) becomes an a element whose href is url
RECURSIVE Links(_)
Links(s) ==
    LET p  == Find(s, <<"[">>, 1)
        q1 == IF p = 0 THEN 0 ELSE LazyEnd(s, <<"]", "(">>, p + 1)
        q2 == IF q1 = 0 THEN 0 ELSE LazyEnd(s, <<")">>, q1 + 2)
    IN  IF p = 0 THEN s
        ELSE IF q2 = 0 THEN SubSeq(s, 1, p) \o Links(From(s, p + 1))
        ELSE SubSeq(s, 1, p - 1)
             \o <<"<", "a", " ", "h", "r", "e", "f", "=", "\"">>
             \o SubSeq(s, q1 + 2, q2 - 1) \o <<"\"", ">">>
             \o SubSeq(s, p + 1, q1 - 1) \o CloseTag(<<"a">>)
             \o Links(From(s, q2 + 1))

\* _render_list
_render_list(list_type, items) ==
    IF list_type = <<>> \/ items = <<>> THEN <<>>
    ELSE Tag(list_type) \o NL
         \o Join([i \in 1..Len(items) |->
                     Tag(<<"l", "i">>) \o items[i] \o CloseTag(<<"l", "i">>)], NL)
         \o NL \o CloseTag(list_type)

\* ol_pattern.match(stripped): the offset of group 2, 0 when no match
OlMatch(stripped) ==
    LET d == SkipChars(stripped, SetOf(Digits), 1)
        w == SkipChars(stripped, Whitespace, d + 1)
    IN  IF /\ d > 1
           /\ d <= Len(stripped) /\ stripped[d] = "."
           /\ w > d + 1
           /\ w <= Len(stripped)
        THEN w ELSE 0

UL == <<"u", "l">>
OL == <<"o", "l">>

\* a scanner that starts as if a list were already open
ListStartInList == [result |-> <<>>, in_list |-> TRUE, list_type |-> <<>>,
                    list_items |-> <<>>]

\* _convert_lists: the state before the first line
ListStart == [result |-> <<>>, in_list |-> FALSE, list_type |-> <<>>,
              list_items |-> <<>>]

\* the body of the loop of _convert_lists, for one line
ListStep(st, line) ==
    LET stripped == Strip(line)
        ol_match == OlMatch(stripped)
        flushed  == Append(st.result, _render_list(st.list_type, st.list_items))
    IN  IF StartsWith(stripped, <<"-", " ">>)
        THEN IF st.in_list /\ st.list_type # UL
             THEN [result |-> flushed, in_list |-> TRUE, list_type |-> UL,
                   list_items |-> <<From(stripped, 3)>>]
             ELSE [result |-> st.result, in_list |-> TRUE, list_type |-> UL,
                   list_items |-> Append(st.list_items, From(stripped, 3))]
        ELSE IF ol_match # 0
        THEN IF st.in_list /\ st.list_type # OL
             THEN [result |-> flushed, in_list |-> TRUE, list_type |-> OL,
                   list_items |-> <<From(stripped, ol_match)>>]
             ELSE [result |-> st.result, in_list |-> TRUE, list_type |-> OL,
                   list_items |-> Append(st.list_items, From(stripped, ol_match))]
        ELSE IF st.in_list
        THEN [result |-> Append(flushed, line), in_list |-> FALSE,
              list_type |-> <<>>, list_items |-> <<>>]
        ELSE [result |-> Append(st.result, line), in_list |-> FALSE,
              list_type |-> st.list_type, list_items |-> st.list_items]

RECURSIVE ListLoop(_, _)
ListLoop(st, lines) ==
    IF lines = <<>> THEN st ELSE ListLoop(ListStep(st, Head(lines)), Tail(lines))

_convert_lists(s) ==
    LET st == ListLoop(ListStart, Split(s, NL, -1))
    IN  Join(IF st.in_list
             THEN Append(st.result, _render_list(st.list_type, st.list_items))
             ELSE st.result, NL)

\* Mutant of Cells: the cells are not trimmed.
CellsUntrimmed(row) ==
    LET parts == Split(row, <<"|">>, -1)
    IN  [i \in 1..(Len(parts) - 2) |-> parts[i + 1]]

\* [cell.strip() for cell in row.split("|")[1:-1]]
Cells(row) ==
    LET parts == Split(row, <<"|">>, -1)
    IN  [i \in 1..(Len(parts) - 2) |-> Strip(parts[i + 1])]

CellsHtml(row, name) ==
    LET cells == Cells(row)
    IN  [i \in 1..Len(cells) |-> Tag(name) \o cells[i] \o CloseTag(name)]

RECURSIVE BodyRows(_)
BodyRows(rows) ==
    IF rows = <<>> THEN <<>>
    ELSE <<Tag(<<"t", "r">>)>> \o CellsHtml(Head(rows), <<"t", "d">>)
         \o <<CloseTag(<<"t", "r">>)>> \o BodyRows(Tail(rows))

MinTableRows == 2

\* _render_table
_render_table(rows) ==
    IF Len(rows) < MinTableRows THEN Join(rows, NL)
    ELSE Join(<<Tag(<<"t", "a", "b", "l", "e">>)>>
              \o <<Tag(<<"t", "h", "e", "a", "d">>) \o Tag(<<"t", "r">>)>>
              \o CellsHtml(rows[1], <<"t", "h">>)
              \o <<CloseTag(<<"t", "r">>) \o CloseTag(<<"t", "h", "e", "a", "d">>)>>
              \o <<Tag(<<"t", "b", "o", "d", "y">>)>>
              \o BodyRows(SubSeq(rows, 3, Len(rows)))
              \o <<CloseTag(<<"t", "b", "o", "d", "y">>)>>
              \o <<CloseTag(<<"t", "a", "b", "l", "e">>)>>, NL)

TableStart == [result |-> <<>>, in_table |-> FALSE, table_rows |-> <<>>]

\* the body of the loop of _convert_tables, for one line
TableStep(st, line) ==
    LET stripped == Strip(line)
    IN  IF StartsWith(stripped, <<"|">>) /\ EndsWith(stripped, <<"|">>)
        THEN [result |-> st.result, in_table |-> TRUE,
              table_rows |-> Append(st.table_rows, stripped)]
        ELSE IF st.in_table
        THEN [result |-> Append(Append(st.result, _render_table(st.table_rows)),
                                line),
              in_table |-> FALSE, table_rows |-> <<>>]
        ELSE [result |-> Append(st.result, line), in_table |-> FALSE,
              table_rows |-> st.table_rows]

RECURSIVE TableLoop(_, _)
TableLoop(st, lines) ==
    IF lines = <<>> THEN st
    ELSE TableLoop(TableStep(st, Head(lines)), Tail(lines))

_convert_tables(s) ==
    LET st == TableLoop(TableStart, Split(s, NL, -1))
    IN  Join(IF st.in_table
             THEN Append(st.result, _render_table(st.table_rows))
             ELSE st.result, NL)

block_prefixes ==
    { <<"<", "h">>, <<"<", "p", "r", "e">>, <<"<", "u", "l">>, <<"<", "o", "l">>,
      <<"<", "t", "a", "b", "l", "e">>, PlaceholderHead }

RECURSIVE WrapEach(_)
WrapEach(paragraphs) ==
    IF paragraphs = <<>> THEN <<>>
    ELSE LET para == Strip(Head(paragraphs))
         IN  IF para = <<>> THEN WrapEach(Tail(paragraphs))
             ELSE IF \E prefix \in block_prefixes : StartsWith(para, prefix)
             THEN <<para>> \o WrapEach(Tail(paragraphs))
             ELSE <<Tag(<<"p">>) \o para \o CloseTag(<<"p">>)>>
                  \o WrapEach(Tail(paragraphs))

_wrap_paragraphs(s) == Join(WrapEach(Split(s, NL \o NL, -1)), NL \o NL)

\* str.replace(old, new)
RECURSIVE ReplaceAll(_, _, _)
ReplaceAll(s, old, new) ==
    LET p == Find(s, old, 1)
    IN  IF p = 0 THEN s
        ELSE SubSeq(s, 1, p - 1) \o new \o ReplaceAll(From(s, p + Len(old)), old, new)

PreCode(code) ==
    Tag(<<"p", "r", "e">>) \o Tag(<<"c", "o", "d", "e">>) \o code
    \o CloseTag(<<"c", "o", "d", "e">>) \o CloseTag(<<"p", "r", "e">>)

\* for i, code in enumerate(code_blocks): text = text.replace(...), from the
\* i-th block (0-based) on
RECURSIVE RestoreCodeBlocks(_, _, _)
RestoreCodeBlocks(s, blocks, i) ==
    IF i >= Len(blocks) THEN s
    ELSE RestoreCodeBlocks(ReplaceAll(s, Placeholder(i), PreCode(blocks[i + 1])),
                           blocks, i + 1)

\* The markdown the converter is called with: up to MaxBlocks pieces, each
\* a line or a fenced code block.
MdPieces ==
    { <<"#", " ", "T", "\n">>,
      <<"#", "#", " ", "*", "U", "*", "\n">>,
      <<"a", " ", "*", "*", "b", "*", "*", "\n">>,
      <<"\n">>,
      <<"-", " ", "i", "\n">>,
      <<"1", ".", " ", "j", "\n">>,
      <<"|", " ", "c", " ", "|", "\n">>,
      <<Backtick, "c", Backtick, "[", "l", "]", "(", "u", ")", "\n">>,
      Fence \o <<"\n", "*", "*", "x", "*", "*", "\n">> \o Fence \o <<"\n">>,
      Fence \o <<"p", "y", "\n", "#", " ">> \o Placeholder(1) \o <<"\n">>
            \o Fence \o <<"\n">> }

MdInputs == { Concat(ps) : ps \in SeqsUpTo(MdPieces, MaxBlocks) }

InitMarkdown ==
    /\ NoBuild
    /\ NoScan
    /\ pc = "save_code_blocks"
    /\ arg \in MdInputs
    /\ text = arg
    /\ code_blocks = <<>>
    /\ html = <<>>
    /\ headings = <<>>
    /\ calls = 0
    /\ sidenote_counter = 0
    /\ content = <<>>
    /\ filepath = NoPath
    /\ frontmatter = EmptyDict
    /\ body = <<>>
    /\ error = NoError
    /\ warnings = <<>>
    /\ context = EmptyDict
    /\ toc_html = <<>>
    /\ has_toc = FALSE

MdStep(from, to, new_text) ==
    /\ pc = from
    /\ text' = new_text
    /\ pc' = to
    /\ UNCHANGED <<bdVars, lsVars, arg, code_blocks, html, calls, fmVars, snVars, hdVars, pgVars>>

SaveCode ==
    /\ pc = "save_code_blocks"
    /\ LET r == SaveCodeBlocks(text, 1, 0)
       IN  text' = r.text /\ code_blocks' = r.code_blocks
    /\ pc' = "headers"
    /\ UNCHANGED <<bdVars, lsVars, arg, html, calls, fmVars, snVars, hdVars, pgVars>>

ConvertHeaders == MdStep("headers", "emphasis", Headers(text))

ConvertEmphasis == MdStep("emphasis", "inline_code", Italic(Bold(text)))

ConvertInlineCode == MdStep("inline_code", "links", InlineCode(text))

ConvertLinks == MdStep("links", "lists", Links(text))

ConvertLists == MdStep("lists", "tables", _convert_lists(text))

ConvertTables == MdStep("tables", "paragraphs", _convert_tables(text))

WrapParagraphs == MdStep("paragraphs", "restore", _wrap_paragraphs(text))

RestoreCode ==
    MdStep("restore", "done", RestoreCodeBlocks(text, code_blocks, 0))

NextMarkdown ==
    \/ SaveCode
    \/ ConvertHeaders
    \/ ConvertEmphasis
    \/ ConvertInlineCode
    \/ ConvertLinks
    \/ ConvertLists
    \/ ConvertTables
    \/ WrapParagraphs
    \/ RestoreCode

SpecMarkdown == InitMarkdown /\ [][NextMarkdown]_vars

\* the passes between saving and restoring the code blocks
MdPasses(s) ==
    Then(Then(Then(Then(Then(Then(Then(Then(s, Headers), Bold), Italic),
         InlineCode), Links), _convert_lists), _convert_tables),
         _wrap_paragraphs)

basic_markdown_to_html(s) ==
    Then(SaveCodeBlocks(s, 1, 0),
         LAMBDA saved :
             Then(MdPasses(saved.text),
                  LAMBDA t : RestoreCodeBlocks(t, saved.code_blocks, 0)))

-----------------------------------------------------------------------------
(* Properties of basic_markdown_to_html.                                   *)

\* C5 as stated: the interior text of every fenced code block is in the
\* output, unchanged, inside <pre><code>...</code></pre>.
C5_CodeBlocksKeptVerbatim ==
    pc = "done" =>
        \A i \in 1..Len(code_blocks) : Contains(text, PreCode(code_blocks[i]))

-----------------------------------------------------------------------------
(* validate_frontmatter                                                    *)

IsDigit(c) == c \in SetOf(Digits)

DigitValue(c) == CHOOSE n \in 0..9 : Digits[n + 1] = c

\* int(s) for a string of decimal digits
RECURSIVE StrToInt(_)
StrToInt(s) ==
    IF s = <<>> THEN 0
    ELSE 10 * StrToInt(SubSeq(s, 1, Len(s) - 1)) + DigitValue(s[Len(s)])

CharAt(s, i) == IF i >= 1 /\ i <= Len(s) THEN s[i] ELSE ""

YearLen == 4
MinYear == 1

\* the length matched by %m at offset i, the next character being the "-"
\* of the format: 1[0-2] | 0[1-9] | [1-9]; 0 when none matches
MonthLen(s, i) ==
    LET a == CharAt(s, i)
        b == CharAt(s, i + 1)
    IN  IF a = "1" /\ b \in {"0", "1", "2"} /\ CharAt(s, i + 2) = "-" THEN 2
        ELSE IF a = "0" /\ IsDigit(b) /\ b # "0" /\ CharAt(s, i + 2) = "-" THEN 2
        ELSE IF IsDigit(a) /\ a # "0" /\ b = "-" THEN 1
        ELSE 0

\* the length matched by %d at offset i: 3[0-1] | [1-2]\d | 0[1-9] | [1-9]
\* | space [1-9]; 0 when none matches
DayLen(s, i) ==
    LET a == CharAt(s, i)
        b == CharAt(s, i + 1)
    IN  IF a = "3" /\ b \in {"0", "1"} THEN 2
        ELSE IF a \in {"1", "2"} /\ IsDigit(b) THEN 2
        ELSE IF a = "0" /\ IsDigit(b) /\ b # "0" THEN 2
        ELSE IF IsDigit(a) /\ a # "0" THEN 1
        ELSE IF a = " " /\ IsDigit(b) /\ b # "0" THEN 2
        ELSE 0

IsLeap(year) == year % 4 = 0 /\ (year % 100 # 0 \/ year % 400 = 0)

DaysInMonth(year, month) ==
    IF month = 2 THEN (IF IsLeap(year) THEN 29 ELSE 28)
    ELSE IF month \in {4, 6, 9, 11} THEN 30
    ELSE 31

\* datetime.strptime(s, "%Y-%m-%d") returns (TRUE) or raises ValueError
\* (FALSE)
StrptimeAccepts(s) ==
    LET ml == MonthLen(s, YearLen + 2)
        dp == YearLen + 2 + ml + 1
        dl == DayLen(s, dp)
    IN  /\ Len(s) > YearLen
        /\ \A i \in 1..YearLen : IsDigit(s[i])
        /\ s[YearLen + 1] = "-"
        /\ ml > 0
        /\ dl > 0
        /\ dp + dl = Len(s) + 1
        /\ StrToInt(SubSeq(s, 1, YearLen)) >= MinYear
        /\ StrToInt(StripChars(SubSeq(s, dp, dp + dl - 1), {" "}))
             <= DaysInMonth(StrToInt(SubSeq(s, 1, YearLen)),
                            StrToInt(SubSeq(s, YearLen + 2, YearLen + 1 + ml)))

\* Path.name
PathName(fp) == LET parts == Split(fp, <<"/">>, -1) IN parts[Len(parts)]

TitleKey == <<"t", "i", "t", "l", "e">>
DateKey == <<"d", "a", "t", "e">>
ExcerptKey == <<"e", "x", "c", "e", "r", "p", "t">>

MissingTitle(location) ==
    location \o <<": missing 'title' in frontmatter (using filename)">>

MissingDate(location) ==
    location \o <<": missing 'date' in frontmatter (using file mtime)">>

MissingExcerpt(location) ==
    location \o <<": missing 'excerpt' (index page will show no description)">>

InvalidDate(location, value) ==
    location \o <<": invalid date format '">> \o value
    \o <<"' (expected YYYY-MM-DD)">>

validate_frontmatter(fm, fp) ==
    LET location == IF fp # NoPath THEN PathName(fp) ELSE <<"p", "o", "s", "t">>
    IN  (IF TitleKey \notin DOMAIN fm THEN <<MissingTitle(location)>> ELSE <<>>)
        \o (IF DateKey \notin DOMAIN fm THEN <<MissingDate(location)>> ELSE <<>>)
        \o (IF ExcerptKey \notin DOMAIN fm
            THEN <<MissingExcerpt(location)>> ELSE <<>>)
        \o (IF DateKey \in DOMAIN fm /\ ~StrptimeAccepts(fm[DateKey])
            THEN <<InvalidDate(location, fm[DateKey])>> ELSE <<>>)

\* The metadata validate_frontmatter is called with: each recommended key
\* absent or present, the date drawn from DateValues.
Chars(digits) == [i \in 1..Len(digits) |-> Digits[digits[i] + 1]]

Ymd(y, mo, d) == Chars(y) \o <<"-">> \o mo \o <<"-">> \o d

Y2026 == <<2, 0, 2, 6>>

DateValues ==
    { Ymd(Y2026, <<"0", "1">>, <<"1", "0">>),
      Ymd(Y2026, <<"1">>, <<"5">>),
      Ymd(Y2026, <<"1", "2">>, <<"3", "1">>),
      Ymd(Y2026, <<"0", "1">>, <<" ", "5">>),
      Ymd(Y2026, <<"0", "2">>, <<"3", "0">>),
      Ymd(Y2026, <<"1", "3">>, <<"0", "1">>),
      Ymd(Y2026, <<"0", "4">>, <<"3", "1">>),
      Ymd(Y2026, <<"0", "0">>, <<"1", "0">>),
      Ymd(Y2026, <<"0", "1">>, <<"1", "0", "0">>),
      Ymd(Y2026, <<"0", "1">>, <<"1", "0", " ">>),
      Ymd(<<2, 0, 2, 4>>, <<"0", "2">>, <<"2", "9">>),
      Ymd(<<1, 9, 0, 0>>, <<"0", "2">>, <<"2", "9">>),
      Ymd(<<2, 0, 0, 0>>, <<"0", "2">>, <<"2", "9">>),
      Ymd(<<0, 0, 0, 0>>, <<"0", "1">>, <<"0", "1">>),
      Ymd(<<2, 6>>, <<"0", "1">>, <<"1", "0">>),
      <<"2", "0", "2", "6", "/", "0", "1", "/", "1", "0">>,
      <<"x">>,
      <<>> }

Optional(key, values) == {EmptyDict} \cup { DictSet(EmptyDict, key, v) : v \in values }

Merge(d, e) == [k \in (DOMAIN d) \cup (DOMAIN e) |-> IF k \in DOMAIN e THEN e[k] ELSE d[k]]

Metadata ==
    { Merge(Merge(t, d), e) :
        t \in Optional(TitleKey, {<<"T">>, <<>>}),
        d \in Optional(DateKey, DateValues),
        e \in Optional(ExcerptKey, {<<"E">>}) }

ValidateOrigins == Origins \cup { <<"d", "/", "q", ".", "m", "d">> }

InitValidate ==
    /\ NoBuild
    /\ NoScan
    /\ pc = "validate_frontmatter"
    /\ frontmatter \in Metadata
    /\ filepath \in ValidateOrigins
    /\ warnings = <<>>
    /\ arg = <<>>
    /\ content = <<>>
    /\ body = <<>>
    /\ error = NoError
    /\ html = <<>>
    /\ sidenote_counter = 0
    /\ calls = 0
    /\ headings = <<>>
    /\ text = <<>>
    /\ code_blocks = <<>>
    /\ context = EmptyDict
    /\ toc_html = <<>>
    /\ has_toc = FALSE

Validate ==
    /\ pc = "validate_frontmatter"
    /\ warnings' = validate_frontmatter(frontmatter, filepath)
    /\ pc' = "validated"
    /\ UNCHANGED <<bdVars, lsVars, arg, html, calls, fmVars, snVars, hdVars, mdVars, context,
                   toc_html, has_toc>>

NextValidate == Validate

SpecValidate == InitValidate /\ [][NextValidate]_vars

-----------------------------------------------------------------------------
(* Properties of validate_frontmatter.                                     *)

Recommended == {TitleKey, DateKey, ExcerptKey}

\* s is a date written as YYYY-MM-DD: four, two and two digits, a month of
\* the year and a day of that month
IsCanonicalDate(s) ==
    /\ Len(s) = 10
    /\ \A i \in {1, 2, 3, 4, 6, 7, 9, 10} : IsDigit(s[i])
    /\ s[5] = "-" /\ s[8] = "-"
    /\ LET y  == StrToInt(SubSeq(s, 1, 4))
           mo == StrToInt(SubSeq(s, 6, 7))
           d  == StrToInt(SubSeq(s, 9, 10))
       IN  y >= 1 /\ mo \in 1..12 /\ d >= 1 /\ d <= DaysInMonth(y, mo)

Range(seq) == {seq[i] : i \in 1..Len(seq)}

\* C12 as stated: one warning per absent recommended key, one more when the
\* date is present and is not a valid YYYY-MM-DD date, and no other warning;
\* no exception is raised.
C12_OneWarningPerProblem ==
    pc = "validated" =>
        /\ error = NoError
        /\ Len(warnings) =
             Cardinality(Recommended \ DOMAIN frontmatter)
             + (IF DateKey \in DOMAIN frontmatter
                   /\ ~IsCanonicalDate(frontmatter[DateKey])
                THEN 1 ELSE 0)
        /\ Cardinality(Range(warnings)) = Len(warnings)

-----------------------------------------------------------------------------
(* render_template                                                         *)

\* The values of a context.  A context is a Python dict: the sequence of its
\* items, in insertion order, each a record [key, value].
StrVal(s) == [kind |-> "str", s |-> s, b |-> FALSE, n |-> 0, items |-> <<>>]
BoolVal(b) == [kind |-> "bool", s |-> <<>>, b |-> b, n |-> 0, items |-> <<>>]
IntVal(n) == [kind |-> "int", s |-> <<>>, b |-> FALSE, n |-> n, items |-> <<>>]
NoneVal == [kind |-> "none", s |-> <<>>, b |-> FALSE, n |-> 0, items |-> <<>>]
ListVal(items) ==
    [kind |-> "list", s |-> <<>>, b |-> FALSE, n |-> 0, items |-> items]

\* The elements of a list value: a dict or a string.
DictItem(ctx) == [kind |-> "dict", ctx |-> ctx, s |-> <<>>]
StrItem(s) == [kind |-> "str", ctx |-> <<>>, s |-> s]

Item(key, value) == [key |-> key, value |-> value]

\* ctx.get(key)
Get(ctx, key) ==
    IF \E i \in 1..Len(ctx) : ctx[i].key = key
    THEN ctx[CHOOSE i \in 1..Len(ctx) : ctx[i].key = key].value
    ELSE NoneVal

\* bool(value), of a value that is not a list
Truthy(value) ==
    CASE value.kind = "str"  -> value.s # <<>>
      [] value.kind = "bool" -> value.b
      [] value.kind = "int"  -> value.n # 0
      [] OTHER               -> FALSE

\* str(value), of a value that is not a list
StrOf(value) ==
    CASE value.kind = "str"  -> value.s
      [] value.kind = "bool" -> IF value.b THEN <<"T", "r", "u", "e">>
                                ELSE <<"F", "a", "l", "s", "e">>
      [] value.kind = "int"  -> IntToStr(value.n)
      [] OTHER               -> <<"N", "o", "n", "e">>

VarToken(key) == <<"{", "{">> \o key \o <<"}", "}">>

BlockOpen(key) == <<"{", "{", "#">> \o key \o <<"}", "}">>

BlockClose(key) == <<"{", "{", "/">> \o key \o <<"}", "}">>

\* the loop "for key, value in ctx.items()" of render_content, from the
\* i-th item on
RECURSIVE ReplaceVariables(_, _, _)
ReplaceVariables(s, ctx, i) ==
    IF i > Len(ctx) THEN s
    ELSE ReplaceVariables(
             IF ctx[i].value.kind # "list"
             THEN ReplaceAll(s, VarToken(ctx[i].key),
                             IF Truthy(ctx[i].value) THEN StrOf(ctx[i].value)
                             ELSE <<>>)
             ELSE s,
             ctx, i + 1)

RECURSIVE render_content(_, _)
RECURSIVE replace_block(_, _, _)
RECURSIVE RenderItems(_, _)
RECURSIVE SubBlocks(_, _, _)

\* the loop "for item in value" of replace_block
RenderItems(inner, items) ==
    IF items = <<>> THEN <<>>
    ELSE (IF Head(items).kind = "dict"
          THEN render_content(inner, Head(items).ctx)
          ELSE inner)
         \o RenderItems(inner, Tail(items))

replace_block(key, inner, ctx) ==
    LET value == Get(ctx, key)
    IN  IF value.kind = "list" THEN RenderItems(inner, value.items)
        ELSE IF Truthy(value) THEN render_content(inner, ctx)
        ELSE <<>>

\* re.sub of the block pattern with replace_block, from offset from on
SubBlocks(s, from, ctx) ==
    LET p  == Find(s, <<"{", "{", "#">>, from)
        j  == SkipChars(s, WordChars, p + 3)
        key == SubSeq(s, p + 3, j - 1)
        cl == IF j > p + 3 /\ StartsAt(s, <<"}", "}">>, j)
              THEN Find(s, BlockClose(key), j + 2) ELSE 0
    IN  IF p = 0 THEN From(s, from)
        ELSE IF cl = 0 THEN SubSeq(s, from, p) \o SubBlocks(s, p + 1, ctx)
        ELSE SubSeq(s, from, p - 1)
             \o replace_block(key, SubSeq(s, j + 2, cl - 1), ctx)
             \o SubBlocks(s, cl + Len(BlockClose(key)), ctx)

render_content(s, ctx) == ReplaceVariables(SubBlocks(s, 1, ctx), ctx, 1)

\* The templates and contexts render_template is called with.
KeyA == <<"a">>
KeyB == <<"b">>
KeyC == <<"c">>
KeyD == <<"d">>
KeyL == <<"l">>
KeyM == <<"m">>

Atoms == { <<"x">>, VarToken(KeyA), VarToken(KeyB), VarToken(KeyM) }

Plain == { Concat(as) : as \in SeqsUpTo(Atoms, MaxAtoms) }

Blocks1 ==
    { BlockOpen(k) \o t \o BlockClose(k) : k \in {KeyC, KeyD, KeyL}, t \in Plain }

Templates ==
    Plain
    \cup { Concat(pre) \o b \o Concat(post) :
             pre \in SeqsUpTo(Atoms, 1), b \in Blocks1, post \in SeqsUpTo(Atoms, 1) }
    \cup { BlockOpen(k) \o pre \o b \o BlockClose(k) :
             k \in {KeyC, KeyL}, pre \in {<<>>, VarToken(KeyA)}, b \in Blocks1 }
    \cup { BlockOpen(KeyC) \o t : t \in Plain }

TemplateContexts ==
    { <<>>,
      << Item(KeyA, StrVal(<<"A">>)), Item(KeyB, StrVal(<<"B">>)),
         Item(KeyC, BoolVal(TRUE)), Item(KeyD, BoolVal(TRUE)),
         Item(KeyL, ListVal(<< DictItem(<<Item(KeyA, StrVal(<<"1">>))>>),
                               DictItem(<<Item(KeyA, StrVal(<<"2">>)),
                                          Item(KeyB, StrVal(<<"3">>))>>) >>)) >>,
      << Item(KeyA, StrVal(VarToken(KeyB))), Item(KeyB, StrVal(<<"B">>)),
         Item(KeyC, BoolVal(TRUE)), Item(KeyD, BoolVal(FALSE)),
         Item(KeyL, ListVal(<<>>)) >>,
      << Item(KeyB, StrVal(<<"B">>)), Item(KeyA, StrVal(VarToken(KeyB))),
         Item(KeyC, IntVal(1)), Item(KeyD, StrVal(<<>>)),
         Item(KeyL, ListVal(<<StrItem(<<"s">>), StrItem(<<"t">>)>>)) >>,
      << Item(KeyA, StrVal(<<>>)), Item(KeyC, BoolVal(FALSE)),
         Item(KeyD, BoolVal(TRUE)), Item(KeyL, ListVal(<<DictItem(<<>>)>>)) >>,
      << Item(KeyC, IntVal(0)), Item(KeyA, IntVal(0)), Item(KeyB, NoneVal),
         Item(KeyD, StrVal(<<"y">>)),
         Item(KeyL, ListVal(<<DictItem(<<Item(KeyA, StrVal(VarToken(KeyB)))>>)>>)) >>,
      << Item(KeyA, BoolVal(TRUE)), Item(KeyB, IntVal(7)),
         Item(KeyC, StrVal(<<"y">>)), Item(KeyD, IntVal(0)),
         Item(KeyL, ListVal(<< DictItem(<<Item(KeyC, BoolVal(TRUE)),
                                          Item(KeyA, StrVal(<<"1">>))>>),
                               DictItem(<<Item(KeyC, BoolVal(FALSE))>>) >>)) >>,
      << Item(KeyC, ListVal(<<DictItem(<<Item(KeyA, StrVal(<<"1">>))>>)>>)),
         Item(KeyD, ListVal(<<>>)), Item(KeyA, StrVal(<<"A">>)),
         Item(KeyL, BoolVal(TRUE)) >> }

InitTemplate ==
    /\ NoBuild
    /\ NoScan
    /\ pc = "resolve_blocks"
    /\ arg \in Templates
    /\ context \in TemplateContexts
    /\ html = arg
    /\ content = <<>>
    /\ filepath = NoPath
    /\ frontmatter = EmptyDict
    /\ body = <<>>
    /\ error = NoError
    /\ sidenote_counter = 0
    /\ calls = 0
    /\ headings = <<>>
    /\ text = <<>>
    /\ code_blocks = <<>>
    /\ warnings = <<>>
    /\ toc_html = <<>>
    /\ has_toc = FALSE

ResolveBlocks ==
    /\ pc = "resolve_blocks"
    /\ html' = SubBlocks(html, 1, context)
    /\ pc' = "replace_variables"
    /\ UNCHANGED <<bdVars, lsVars, arg, calls, fmVars, snVars, hdVars, mdVars, warnings,
                   context, toc_html, has_toc>>

SubstituteVariables ==
    /\ pc = "replace_variables"
    /\ html' = ReplaceVariables(html, context, 1)
    /\ pc' = "rendered"
    /\ UNCHANGED <<bdVars, lsVars, arg, calls, fmVars, snVars, hdVars, mdVars, warnings,
                   context, toc_html, has_toc>>

NextTemplate == ResolveBlocks \/ SubstituteVariables

SpecTemplate == InitTemplate /\ [][NextTemplate]_vars

-----------------------------------------------------------------------------
(* Properties of render_template.                                          *)

\* every token of s whose key has a scalar value in ctx replaced by the
\* string form of that value (nothing when falsy), in one pass over s
RECURSIVE SubstituteOnce(_, _)
SubstituteOnce(s, ctx) ==
    IF s = <<>> THEN <<>>
    ELSE LET hits == { i \in 1..Len(ctx) :
                         /\ ctx[i].value.kind # "list"
                         /\ StartsWith(s, VarToken(ctx[i].key)) }
         IN  IF hits = {} THEN <<Head(s)>> \o SubstituteOnce(Tail(s), ctx)
             ELSE LET i == CHOOSE i \in hits : TRUE
                  IN  (IF Truthy(ctx[i].value) THEN StrOf(ctx[i].value) ELSE <<>>)
                      \o SubstituteOnce(From(s, Len(VarToken(ctx[i].key)) + 1), ctx)

HasBlock(t) == Contains(t, <<"{", "{", "#">>)

\* C13 as stated, for a template without blocks: every token whose key is in
\* the context is replaced by the string form of the key's scalar value
\* (nothing when falsy), every other token is left as it is.
C13_TokensReplacedByTheirValue ==
    (pc = "rendered" /\ ~HasBlock(arg)) => html = SubstituteOnce(arg, context)

\* t is one block for key, its closing tag being the first one in t
IsBlockOf(t, key) ==
    /\ StartsWith(t, BlockOpen(key))
    /\ Find(t, BlockClose(key), 1) = Len(t) - Len(BlockClose(key)) + 1
    /\ Len(t) >= Len(BlockOpen(key)) + Len(BlockClose(key))

InnerOf(t, key) ==
    SubSeq(t, Len(BlockOpen(key)) + 1, Len(t) - Len(BlockClose(key)))

BlockKeys == {KeyC, KeyD, KeyL}

\* C14 as stated: a block whose key is a sequence renders to the inner
\* template once per element, in order, rendered with the element alone as
\* the context when it is a mapping and unchanged otherwise.
C14_LoopRendersEachElementAlone ==
    \A key \in BlockKeys :
        (/\ pc = "rendered"
         /\ IsBlockOf(arg, key)
         /\ Get(context, key).kind = "list") =>
            LET items == Get(context, key).items
                inner == InnerOf(arg, key)
            IN  html = Concat([i \in 1..Len(items) |->
                                  IF items[i].kind = "dict"
                                  THEN render_content(inner, items[i].ctx)
                                  ELSE inner])

\* C15 as stated: a block whose key is not a sequence renders to nothing
\* when the key is absent or falsy, and otherwise to the inner template
\* rendered once with the outer context.
C15_ConditionRendersInnerOnce ==
    \A key \in BlockKeys :
        (/\ pc = "rendered"
         /\ IsBlockOf(arg, key)
         /\ Get(context, key).kind # "list") =>
            html = IF Truthy(Get(context, key))
                   THEN render_content(InnerOf(arg, key), context)
                   ELSE <<>>

\* C16 as stated: no h1, h2 or h3 element of the output lies inside a p
\* element.
C16_HeadersNotInParagraphs ==
    pc = "done" =>
        \A i \in 1..Len(text) :
            StartsAt(text, Tag(<<"p">>), i) =>
                LET j == Find(text, CloseTag(<<"p">>), i)
                IN  \A level \in {"1", "2", "3"} :
                        LET h == Find(text, Tag(<<"h", level>>), i)
                        IN  h = 0 \/ j = 0 \/ h > j

-----------------------------------------------------------------------------
(* _convert_tables on its own                                              *)

\* The text _convert_tables is called with: up to MaxRows lines.
TableLines ==
    { <<"|", " ", "h", " ", "|", " ", "g", " ", "|">>,
      <<"|", "-", "|", "-", "|">>,
      <<"|", " ", "c", " ", "|">>,
      <<" ", "|", " ", " ", "e", " ", "|", "f", "\t", "|", " ">>,
      <<"|">>,
      <<"x", " ", "|">>,
      <<>> }

TableTexts == { Join(ls, NL) : ls \in SeqsUpTo(TableLines, MaxRows) }

InitTables ==
    /\ NoBuild
    /\ NoScan
    /\ pc = "tables"
    /\ arg \in TableTexts
    /\ text = arg
    /\ code_blocks = <<>>
    /\ html = <<>>
    /\ headings = <<>>
    /\ calls = 0
    /\ sidenote_counter = 0
    /\ content = <<>>
    /\ filepath = NoPath
    /\ frontmatter = EmptyDict
    /\ body = <<>>
    /\ error = NoError
    /\ warnings = <<>>
    /\ context = EmptyDict
    /\ toc_html = <<>>
    /\ has_toc = FALSE

NextTables == ConvertTables

SpecTables == InitTables /\ [][NextTables]_vars

-----------------------------------------------------------------------------
(* Properties of _convert_tables.                                          *)

IsPipeLine(line) ==
    StartsWith(Strip(line), <<"|">>) /\ EndsWith(Strip(line), <<"|">>)

\* the cells of a pipe-delimited line: the texts between its bars, trimmed
RECURSIVE CellTexts(_)
CellTexts(stripped) ==
    LET rest == Tail(stripped)
        bar  == Find(rest, <<"|">>, 1)
    IN  IF bar = 0 THEN <<>>
        ELSE <<Strip(SubSeq(rest, 1, bar - 1))>> \o CellTexts(From(rest, bar))

Row(name, cells) ==
    Concat([i \in 1..Len(cells) |-> NL \o Tag(name) \o cells[i] \o CloseTag(name)])

\* the table of the lines a..b of lines, as the claim describes it
TableOf(lines, a, b) ==
    Tag(<<"t", "a", "b", "l", "e">>) \o NL
    \o Tag(<<"t", "h", "e", "a", "d">>) \o Tag(<<"t", "r">>)
    \o Row(<<"t", "h">>, CellTexts(Strip(lines[a]))) \o NL
    \o CloseTag(<<"t", "r">>) \o CloseTag(<<"t", "h", "e", "a", "d">>) \o NL
    \o Tag(<<"t", "b", "o", "d", "y">>)
    \o Concat([i \in 1..(b - a - 1) |->
                  NL \o Tag(<<"t", "r">>)
                  \o Row(<<"t", "d">>, CellTexts(Strip(lines[a + 1 + i])))
                  \o NL \o CloseTag(<<"t", "r">>)])
    \o NL \o CloseTag(<<"t", "b", "o", "d", "y">>)
    \o NL \o CloseTag(<<"t", "a", "b", "l", "e">>)

RunStarts(lines) ==
    { i \in 1..Len(lines) :
        IsPipeLine(lines[i]) /\ (i = 1 \/ ~IsPipeLine(lines[i - 1])) }

RunEnd(lines, a) ==
    CHOOSE b \in a..Len(lines) :
        /\ \A i \in a..b : IsPipeLine(lines[i])
        /\ b = Len(lines) \/ ~IsPipeLine(lines[b + 1])

\* the text with every run of pipe-delimited lines replaced by its table
TablesOf(lines) ==
    Join(Concat([i \in 1..Len(lines) |->
                    IF ~IsPipeLine(lines[i]) THEN <<lines[i]>>
                    ELSE IF i \in RunStarts(lines)
                    THEN <<TableOf(lines, i, RunEnd(lines, i))>>
                    ELSE <<>>]), NL)

AllRunsHaveTwoLines(lines) ==
    \A a \in RunStarts(lines) : RunEnd(lines, a) > a

\* C17: every run of n >= 2 contiguous pipe-delimited lines becomes exactly
\* one table, with one head row holding the trimmed cells of the first
\* line, the second line dropped, and one body row per line 3..n, in order,
\* holding that line's trimmed cells; the other lines are not touched.
C17_RunBecomesOneTable ==
    LET lines == Split(arg, NL, -1)
    IN  (pc = "paragraphs" /\ AllRunsHaveTwoLines(lines)) =>
            text = TablesOf(lines)

\* C17 witness: a run of four pipe-delimited lines with padded cells was
\* converted.
C17_Witness ==
    LET lines == Split(arg, NL, -1)
    IN  /\ pc = "paragraphs"
        /\ Len(lines) = 4
        /\ \A i \in 1..4 : IsPipeLine(lines[i])
        /\ lines[3] # lines[4]
        /\ lines[1] # lines[2]
        /\ \E i \in {1, 3, 4} : Strip(lines[i]) # lines[i]
        /\ CountOccurrences(text, Tag(<<"t", "r">>)) = 3

-----------------------------------------------------------------------------
(* Further properties of extract_headings.                                 *)

HasIdAttr(tag) == Contains(tag, <<" ">> \o IdAttr)

\* the value of the id attribute of an opening tag
AttrId(tag) ==
    LET p == Find(tag, <<" ">> \o IdAttr, 1) + Len(IdAttr) + 1
    IN  SubSeq(tag, p, Find(tag, <<"\"">>, p) - 1)

\* C18 as stated: the identifier of an extracted heading is the id attribute
\* of its element, verbatim, when the element has one (stated here for a
\* non-empty id), and otherwise the element's text with tags stripped,
\* lower-cased, reduced to word characters, whitespace and hyphens, each
\* whitespace run replaced by one hyphen.
C18_IdKeptOrDerived ==
    (pc = "add_ids" /\ calls = 0) =>
        LET ms == ExtractMatches(arg, 1)
        IN  /\ Len(headings) = Len(ms)
            /\ \A i \in 1..Len(ms) :
                   LET tag == OpenTagOf(arg, ms[i])
                   IN  IF HasIdAttr(tag)
                       THEN AttrId(tag) # <<>> => headings[i].id = AttrId(tag)
                       ELSE headings[i].id
                              = HyphenateSpaces(KeepSlugChars(Lower(
                                    Strip(StripTags(ms[i].inner)))))

-----------------------------------------------------------------------------
(* markdown_to_html, generate_toc_html and page assembly                   *)

convert_sidenotes(h) ==
    Then(SubSn(h, 0), LAMBDA a : SubMn(a.html, a.counter).html)

NtOpen == <<"{", "n", "t", "}">>
\* Mutant of NtClose: a newthought is closed by the closing tag of a sidenote.
NtCloseOfSidenote == <<"{", "/", "s", "n", "}">>

NtClose == <<"{", "/", "n", "t", "}">>

\* re.sub(r"\{nt\}(.*?)\{/nt\}", r'<span class="newthought">\1</span>', html):
\* the span may be empty and does not cross a line break
RECURSIVE convert_newthought(_)
convert_newthought(s) ==
    LET p  == Find(s, NtOpen, 1)
        c  == p + Len(NtOpen)
        q  == Find(s, NtClose, c)
        nl == Find(s, NL, c)
    IN  IF p = 0 THEN s
        ELSE IF q = 0 \/ (nl # 0 /\ nl < q)
        THEN SubSeq(s, 1, p) \o convert_newthought(From(s, p + 1))
        ELSE SubSeq(s, 1, p - 1) \o <<"<span class=\"newthought\">">>
             \o SubSeq(s, c, q - 1) \o <<"</span>">>
             \o convert_newthought(From(s, q + Len(NtClose)))

\* markdown_to_html, without the markdown package (HAS_MARKDOWN false)
markdown_to_html(md) ==
    Then(Then(Then(basic_markdown_to_html(md), convert_sidenotes),
              convert_newthought),
         LAMBDA h :
             Then(extract_headings(h),
                  LAMBDA hs : [html |-> add_heading_ids(h, hs),
                               headings |-> hs]))

\* Mutant of TocItem: every item is classed as a level-2 entry.
TocItemAllH2(heading) ==
    <<"<li class=\"", "toc-h2", "\">", "<a href=\"#">> \o heading.id
    \o <<"\">">> \o heading.text \o <<"</a>", "</li>">>

TocItem(heading) ==
    <<"<li class=\"">>
    \o (IF heading.level = "2" THEN <<"toc-h2">> ELSE <<"toc-h3">>)
    \o <<"\">", "<a href=\"#">> \o heading.id \o <<"\">">> \o heading.text
    \o <<"</a>", "</li>">>

generate_toc_html(hs) ==
    IF hs = <<>> THEN <<>>
    ELSE Join(<< <<"<nav class=\"toc\" aria-label=\"Table of contents\">">>,
                 <<"<ul class=\"toc-list\">">> >>
              \o [i \in 1..Len(hs) |-> TocItem(hs[i])]
              \o << <<"</ul>">>, <<"</nav>">> >>, NL)

MIN_HEADINGS_FOR_TOC == 3

\* Mutant of HasToc: the ToC is shown as soon as there is a heading.
HasTocWhenAny(hs) == hs # <<>>

\* len(headings) >= MIN_HEADINGS_FOR_TOC
HasToc(hs) == Len(hs) >= MIN_HEADINGS_FOR_TOC

\* the entries of the template context that page assembly fills from the
\* converted body
PageContext(body_html, toc, flag) ==
    << Item(<<"b", "o", "d", "y">>, StrVal(body_html)),
       Item(<<"t", "o", "c">>, StrVal(toc)),
       Item(<<"h", "a", "s", "_", "t", "o", "c">>, BoolVal(flag)) >>

\* The bodies page assembly is called with: up to MaxSections sections.
Sections ==
    { <<"#", "#", " ", "A", "\n", "\n">>,
      <<"#", "#", "#", " ", "B", " ", "c", "\n", "\n">>,
      <<"<", "h", "3", " ", "i", "d", "=", "\"", "k", "\"", ">", "D",
        "<", "/", "h", "3", ">", "\n", "\n">>,
      <<"#", " ", "T", "\n", "\n">>,
      <<"x", " ">> \o SnOpen \o <<"n">> \o SnClose \o <<"\n", "\n">> }

Bodies == { Concat(ss) : ss \in SeqsUpTo(Sections, MaxSections) }

InitPage ==
    /\ NoBuild
    /\ NoScan
    /\ pc \in {"build_post", "build_page"}
    /\ body \in Bodies
    /\ arg = body
    /\ html = <<>>
    /\ headings = <<>>
    /\ toc_html = <<>>
    /\ has_toc = FALSE
    /\ context = EmptyDict
    /\ content = <<>>
    /\ filepath = NoPath
    /\ frontmatter = EmptyDict
    /\ error = NoError
    /\ sidenote_counter = 0
    /\ calls = 0
    /\ text = <<>>
    /\ code_blocks = <<>>
    /\ warnings = <<>>

\* body_html, headings = markdown_to_html(body); toc_html = ...; has_toc = ...
Assemble(from, to) ==
    /\ pc = from
    /\ \E r \in {markdown_to_html(body)} :
           \E toc \in {generate_toc_html(r.headings)} :
               /\ html' = r.html
               /\ headings' = r.headings
               /\ toc_html' = toc
               /\ has_toc' = HasToc(r.headings)
               /\ context' = PageContext(r.html, toc, HasToc(r.headings))
    /\ pc' = to
    /\ UNCHANGED <<bdVars, lsVars, arg, calls, fmVars, snVars, mdVars, warnings>>

BuildPost == Assemble("build_post", "post_built")

BuildPage == Assemble("build_page", "page_built")

NextPage == BuildPost \/ BuildPage

SpecPage == InitPage /\ [][NextPage]_vars

-----------------------------------------------------------------------------
(* Properties of generate_toc_html and of page assembly.                   *)

Built == pc \in {"post_built", "page_built"}

\* C19: the ToC of an empty heading list is the empty string; otherwise it is
\* one nav element holding one list with exactly one item per heading, in
\* the order of the list, the i-th item linking to # followed by the i-th
\* id, with the i-th text, classed toc-h2 for level 2 and toc-h3 for level 3.
C19_TocListsHeadingsInOrder ==
    Built =>
        LET lines == Split(toc_html, NL, -1)
            n     == Len(headings)
        IN  IF n = 0 THEN toc_html = <<>>
            ELSE /\ Len(lines) = n + 4
                 /\ lines[1]
                      = <<"<nav class=\"toc\" aria-label=\"Table of contents\">">>
                 /\ lines[2] = <<"<ul class=\"toc-list\">">>
                 /\ lines[n + 3] = <<"</ul>">>
                 /\ lines[n + 4] = <<"</nav>">>
                 /\ CountOccurrences(toc_html, <<"<li class=\"">>) = n
                 /\ \A i \in 1..n :
                        LET item == lines[i + 2]
                        IN  /\ item[1] = "<li class=\""
                            /\ item[2] = (IF headings[i].level = "2"
                                           THEN "toc-h2" ELSE "toc-h3")
                            /\ SubSeq(item, 4, Len(item) - 2)
                                 = <<"<a href=\"#">> \o headings[i].id
                                   \o <<"\">">> \o headings[i].text
                            /\ headings[i].level \in {"2", "3"}

\* C19 witness: a ToC was generated for headings of both levels, one of them
\* with an id of its own.
C19_Witness ==
    /\ Built
    /\ Len(headings) = 3
    /\ headings[1].level = "3" /\ headings[2].level = "2"
    /\ headings[3].id = <<"k">>
    /\ headings[1].id # headings[2].id
    /\ toc_html # <<>>

\* the number of heading lines (level 2 or 3) of a body
HeadingLines(md) ==
    LET lines == Split(md, NL, -1)
    IN  Cardinality({ i \in 1..Len(lines) :
                        \/ StartsWith(lines[i], <<"#", "#", " ">>)
                        \/ StartsWith(lines[i], <<"#", "#", "#", " ">>)
                        \/ StartsWith(lines[i], <<"<", "h", "3">>) })

\* C20: has_toc is true exactly when the document has at least 3 headings;
\* with 1 or 2 headings the extracted list and the ToC string are not empty
\* but has_toc is false, with none the ToC string is empty.
C20_TocShownFromThreeHeadings ==
    Built =>
        LET n == HeadingLines(body)
        IN  /\ Len(headings) = n
            /\ has_toc <=> n >= 3
            /\ Get(context, <<"h", "a", "s", "_", "t", "o", "c">>).b = has_toc
            /\ n \in {1, 2} => headings # <<>> /\ toc_html # <<>> /\ ~has_toc
            /\ n = 0 => toc_html = <<>>

\* C20 witness: a post with exactly two headings was assembled: its ToC
\* string is not empty, its flag is false.
C20_Witness ==
    /\ pc = "post_built"
    /\ HeadingLines(body) = 2
    /\ Len(headings) = 2
    /\ toc_html # <<>>
    /\ ~has_toc

-----------------------------------------------------------------------------
(* build                                                                   *)

LANGUAGES == <<"en", "pt">>

\* what a source document is on disk: not there, a document that builds
\* (with or without validation warnings), a path whose read_text fails, a
\* document with a malformed header, a document whose output cannot be
\* written
Sound == {"ok", "warns"}
Faults == {"unreadable", "malformed", "unwritable"}
Conditions == {"absent"} \cup Sound \cup Faults

\* the slugs of posts/ and pages/, in sorted order
PostSlugs == <<"p1", "p2">>
PageSlugs == <<"about", "q">>

Doc(l, kind, slug) == <<l, kind, slug>>

Docs ==
    { Doc("en", "posts", "p1"), Doc("en", "posts", "p2"),
      Doc("pt", "posts", "p1"),
      Doc("en", "pages", "about"), Doc("en", "pages", "q"),
      Doc("pt", "pages", "about") }

\* the condition of a document in world w; a path outside Docs is absent
Condition(w, l, kind, slug) ==
    IF Doc(l, kind, slug) \in Docs THEN w.docs[Doc(l, kind, slug)]
    ELSE "absent"

\* str(md_path)
SourcePath(l, kind, slug) == <<kind, "/", l, "/", slug, ".md">>

\* a file of the output directory, written by this run or found there
File(path, run) == [path |-> path, run |-> run]

OldFiles ==
    { File(<<"index.html">>, "old"),
      File(<<"en", "/", "posts", "/", "p1", ".html">>, "old"),
      File(<<"en", "/", "posts", "/", "gone", ".html">>, "old") }

\* Path.write_text: the file is created or replaced
WriteFile(out, path) ==
    {f \in out : f.path # path} \cup {File(path, "new")}

\* Mutant of ClearedOutput: the directory is created if missing, its files
\* are kept.
ClearedOutputKeepsFiles(out) == out

\* shutil.rmtree(OUTPUT_DIR) if it exists, then OUTPUT_DIR.mkdir()
ClearedOutput(out) == {}

\* Mutant of Failed: a build with warnings fails too.
FailedOnWarnings(errs, warns) == errs # <<>> \/ warns # <<>>

\* if errors: return False, else return True
Failed(errs, warns) == errs # <<>>

\* find_content_pairs: the slugs found in some language, sorted
Pairs(w, kind, slugs) ==
    SelectSeq(slugs, LAMBDA slug :
        \E i \in 1..Len(LANGUAGES) :
            Condition(w, LANGUAGES[i], kind, slug) # "absent")

Worlds ==
    { w \in [docs : [Docs -> Conditions],
             templates : BOOLEAN, static : BOOLEAN, cname : BOOLEAN,
             old : {{}, OldFiles}] :
        /\ Cardinality({d \in Docs : w.docs[d] \in Faults}) <= MaxFaults
        /\ \A d \in Docs :
               /\ d[2] = "pages" => w.docs[d] # "warns"
               /\ d[3] = "about" => w.docs[d] # "unwritable"
        /\ ~w.templates => w.static /\ w.cname
        /\ ~w.static => w.cname }

InitBuild ==
    /\ pc = "build"
    /\ world \in Worlds
    /\ output = world.old
    /\ lang = 0
    /\ queue = <<>>
    /\ posts = <<>>
    /\ errors = <<>>
    /\ returned = "none"
    /\ total_posts = 0
    /\ total_pages = 0
    /\ warnings = <<>>
    /\ error = NoError
    /\ NoScan
    /\ arg = <<>>
    /\ content = <<>>
    /\ filepath = NoPath
    /\ frontmatter = EmptyDict
    /\ body = <<>>
    /\ html = <<>>
    /\ sidenote_counter = 0
    /\ calls = 0
    /\ headings = <<>>
    /\ text = <<>>
    /\ code_blocks = <<>>
    /\ context = EmptyDict
    /\ toc_html = <<>>
    /\ has_toc = FALSE

otherVars == <<arg, content, filepath, frontmatter, body, html,
               sidenote_counter, calls, headings, text, code_blocks,
               context, toc_html, has_toc, world>>

\* an exception leaves build()
Propagates(type, msg) ==
    /\ error' = [type |-> type, msg |-> msg]
    /\ pc' = "raised"

\* the validation of the required directories
CheckDirs ==
    /\ pc = "build"
    /\ IF ~world.templates \/ ~world.static
       THEN returned' = "False" /\ pc' = "returned"
       ELSE returned' = returned /\ pc' = "clear_output"
    /\ UNCHANGED <<lsVars, otherVars, lang, queue, posts, errors, output,
                   total_posts, total_pages, warnings, error>>

ClearOutput ==
    /\ pc = "clear_output"
    /\ output' = ClearedOutput(output)
    /\ pc' = "copy_static"
    /\ UNCHANGED <<lsVars, otherVars, lang, queue, posts, errors, returned,
                   total_posts, total_pages, warnings, error>>

\* copy_static(), find_content_pairs and the entry of the language loop
CopyStatic ==
    /\ pc = "copy_static"
    /\ output' = WriteFile(output, <<"static", "/">>)
    /\ lang' = 1
    /\ posts' = <<>>
    /\ queue' = Pairs(world, "posts", PostSlugs)
    /\ pc' = "posts"
    /\ UNCHANGED <<lsVars, otherVars, errors, returned, total_posts,
                   total_pages, warnings, error>>

\* one iteration of the loop over the posts of the language
BuildPosts ==
    /\ pc = "posts"
    /\ queue # <<>>
    /\ LET slug == Head(queue)
           l    == LANGUAGES[lang]
           cond == Condition(world, l, "posts", slug)
           src  == SourcePath(l, "posts", slug)
       IN  /\ queue' = Tail(queue)
           /\ warnings' = IF cond \in {"warns", "unwritable"}
                          THEN Append(warnings, <<"Missing 'excerpt' in ">> \o src)
                          ELSE warnings
           /\ errors' =
                 IF cond = "unreadable"
                 THEN Append(errors, <<"Cannot read ">> \o src)
                 ELSE IF cond = "malformed"
                 THEN Append(errors, <<"Malformed frontmatter in ">> \o src)
                 ELSE errors
           /\ IF cond \in Sound
              THEN /\ output' = WriteFile(output,
                                     <<l, "/", "posts", "/", slug, ".html">>)
                   /\ posts' = Append(posts, slug)
              ELSE UNCHANGED <<output, posts>>
           /\ IF cond = "unwritable"
              THEN Propagates("OSError", <<"Cannot write the output of ">> \o src)
              ELSE UNCHANGED <<pc, error>>
    /\ UNCHANGED <<lsVars, otherVars, lang, returned, total_posts, total_pages>>

\* build_index(posts, lang), after the last post of the language
BuildIndex ==
    /\ pc = "posts"
    /\ queue = <<>>
    /\ LET l     == LANGUAGES[lang]
           about == Condition(world, l, "pages", "about")
           src   == SourcePath(l, "pages", "about")
       IN  IF about = "unreadable"
           THEN /\ Propagates("OSError", <<"Cannot read ">> \o src)
                /\ UNCHANGED <<output, total_posts, queue>>
           ELSE IF about = "malformed"
           THEN /\ Propagates("FrontmatterError",
                              <<"Malformed frontmatter in ">> \o src)
                /\ UNCHANGED <<output, total_posts, queue>>
           ELSE /\ output' = WriteFile(output, <<l, "/", "index.html">>)
                /\ total_posts' = total_posts + Len(posts)
                /\ queue' = Pairs(world, "pages", PageSlugs)
                /\ pc' = "pages"
                /\ error' = error
    /\ UNCHANGED <<lsVars, otherVars, lang, posts, errors, returned,
                   total_pages, warnings>>

\* one iteration of the loop over the standalone pages of the language
BuildPages ==
    /\ pc = "pages"
    /\ queue # <<>>
    /\ LET slug == Head(queue)
           l    == LANGUAGES[lang]
           cond == IF slug = "about" THEN "absent"
                   ELSE Condition(world, l, "pages", slug)
           src  == SourcePath(l, "pages", slug)
       IN  /\ queue' = Tail(queue)
           /\ errors' =
                 IF cond = "unreadable"
                 THEN Append(errors, <<"Cannot read ">> \o src)
                 ELSE IF cond = "malformed"
                 THEN Append(errors, <<"Malformed frontmatter in ">> \o src)
                 ELSE errors
           /\ IF cond \in Sound
              THEN /\ output' = WriteFile(output, <<l, "/", slug, ".html">>)
                   /\ total_pages' = total_pages + 1
              ELSE UNCHANGED <<output, total_pages>>
           /\ IF cond = "unwritable"
              THEN Propagates("OSError", <<"Cannot write the output of ">> \o src)
              ELSE UNCHANGED <<pc, error>>
    /\ UNCHANGED <<lsVars, otherVars, lang, posts, returned, total_posts,
                   warnings>>

\* build_feed if there are posts, then the next language
BuildFeed ==
    /\ pc = "pages"
    /\ queue = <<>>
    /\ output' = IF posts # <<>>
                 THEN WriteFile(output, <<LANGUAGES[lang], "/", "feed.xml">>)
                 ELSE output
    /\ IF lang < Len(LANGUAGES)
       THEN /\ lang' = lang + 1
            /\ posts' = <<>>
            /\ queue' = Pairs(world, "posts", PostSlugs)
            /\ pc' = "posts"
       ELSE /\ pc' = "root_redirect"
            /\ UNCHANGED <<lang, posts, queue>>
    /\ UNCHANGED <<lsVars, otherVars, errors, returned, total_posts,
                   total_pages, warnings, error>>

\* build_root_redirect() and the copy of CNAME
BuildRootRedirect ==
    /\ pc = "root_redirect"
    /\ output' = IF world.cname
                 THEN WriteFile(WriteFile(output, <<"index.html">>), <<"CNAME">>)
                 ELSE WriteFile(output, <<"index.html">>)
    /\ pc' = "summary"
    /\ UNCHANGED <<lsVars, otherVars, lang, queue, posts, errors, returned,
                   total_posts, total_pages, warnings, error>>

\* the warnings are printed, then the summary decides the result
Summary ==
    /\ pc = "summary"
    /\ returned' = IF Failed(errors, warnings) THEN "False" ELSE "True"
    /\ pc' = "returned"
    /\ UNCHANGED <<lsVars, otherVars, lang, queue, posts, errors, output,
                   total_posts, total_pages, warnings, error>>

NextBuild ==
    \/ CheckDirs
    \/ ClearOutput
    \/ CopyStatic
    \/ BuildPosts
    \/ BuildIndex
    \/ BuildPages
    \/ BuildFeed
    \/ BuildRootRedirect
    \/ Summary

SpecBuild == InitBuild /\ [][NextBuild]_vars

-----------------------------------------------------------------------------
(* Properties of build.                                                    *)

\* the documents build reads for language l: its posts, its pages, and the
\* about page that build_index inlines
DirsFound == world.templates /\ world.static

Completed == pc = "returned" /\ DirsFound

DocsIn(conds) == {d \in Docs : world.docs[d] \in conds}

OutputPath(d) ==
    IF d[2] = "posts" THEN <<d[1], "/", "posts", "/", d[3], ".html">>
    ELSE <<d[1], "/", d[3], ".html">>

Recorded(msg) == \E i \in 1..Len(errors) : errors[i] = msg

\* every document that builds has its output, except the about page, which
\* has no page of its own
OthersBuilt ==
    \A d \in DocsIn(Sound) :
        d[3] # "about" => File(OutputPath(d), "new") \in output

\* C21: a FrontmatterError is fatal for its document only: for every
\* document read (posts, pages, the about page of the index) it is caught
\* and recorded in the error list, every other document is built and the
\* build runs to completion.
C21_HeaderErrorsAreRecorded ==
    /\ error.type # "FrontmatterError"
    /\ Completed =>
           /\ \A d \in DocsIn({"malformed"}) :
                  Recorded(<<"Malformed frontmatter in ">>
                           \o SourcePath(d[1], d[2], d[3]))
           /\ OthersBuilt

\* C22: every failure to read a source file or to write an output file is
\* handled like a FrontmatterError: no OSError leaves the build, the
\* document is skipped and recorded in the error list, the others are built.
C22_FileErrorsAreRecorded ==
    /\ error.type # "OSError"
    /\ Completed =>
           /\ Len(errors) >= Cardinality(DocsIn({"unreadable", "unwritable"}))
           /\ \A d \in DocsIn({"unreadable"}) :
                  Recorded(<<"Cannot read ">> \o SourcePath(d[1], d[2], d[3]))
           /\ OthersBuilt

\* C23 as stated: build() returns failure if and only if at least one error
\* was recorded.
C23_FailsIffErrorRecorded ==
    pc = "returned" => (returned = "False" <=> errors # <<>>)

\* C23, amended: a build that found its templates and static directories
\* returns failure if and only if at least one error was recorded, whatever
\* the warnings; a build that misses one of them returns failure with an
\* empty error list.
C23_FailsIffErrorRecordedOrDirMissing ==
    pc = "returned" =>
        /\ returned \in {"True", "False"}
        /\ DirsFound => (returned = "False" <=> errors # <<>>)
        /\ ~DirsFound => returned = "False" /\ errors = <<>>

\* C23 witness: a build with warnings and no error succeeded.
C23_Witness ==
    /\ pc = "returned"
    /\ warnings # <<>>
    /\ errors = <<>>
    /\ returned = "True"

\* C24: every step that puts a file into the output directory finds no
\* file of an earlier build in it (the directory was cleared before), and
\* the output of a completed build holds files of this run only.
C24_OutputClearedBeforeWrites ==
    /\ [][(\E f \in output' : f \notin output)
            => \A g \in output : g.run = "new"]_vars
    /\ [](Completed => \A f \in output : f.run = "new")

\* C24 witness: a build completed in an output directory that held files, one
\* of them is rebuilt and another is gone.
C24_Witness ==
    /\ Completed
    /\ world.old # {}
    /\ File(<<"en", "/", "posts", "/", "p1", ".html">>, "new") \in output
    /\ \A f \in output : f.path # <<"en", "/", "posts", "/", "gone", ".html">>

-----------------------------------------------------------------------------
(* convert_sidenotes and convert_newthought, in both orders                *)

\* The texts both converters are called with: up to MaxTokens tokens, each a
\* tag of one of the three kinds, a letter or a line break.
OrderTokens ==
    { SnOpen, SnClose, MnOpen, MnClose, NtOpen, NtClose, <<"a">>, NL }

OrderInputs == { Concat(ts) : ts \in SeqsUpTo(OrderTokens, MaxTokens) }

InitOrder ==
    /\ NoBuild
    /\ NoScan
    /\ pc = "notes_first"
    /\ arg \in OrderInputs
    /\ html = <<>>
    /\ text = <<>>
    /\ sidenote_counter = 0
    /\ calls = 0
    /\ content = <<>>
    /\ filepath = NoPath
    /\ frontmatter = EmptyDict
    /\ body = <<>>
    /\ error = NoError
    /\ headings = <<>>
    /\ code_blocks = <<>>
    /\ warnings = <<>>
    /\ context = EmptyDict
    /\ toc_html = <<>>
    /\ has_toc = FALSE

\* the order of markdown_to_html: the notes, then the newthoughts
NotesFirst ==
    /\ pc = "notes_first"
    /\ html' = Then(convert_sidenotes(arg), convert_newthought)
    /\ pc' = "newthought_first"
    /\ UNCHANGED <<bdVars, lsVars, arg, text, code_blocks, calls, fmVars,
                   snVars, hdVars, pgVars>>

\* the other order
NewthoughtFirst ==
    /\ pc = "newthought_first"
    /\ text' = Then(convert_newthought(arg), convert_sidenotes)
    /\ pc' = "both_done"
    /\ UNCHANGED <<bdVars, lsVars, arg, html, code_blocks, calls, fmVars,
                   snVars, hdVars, pgVars>>

NextOrder == NotesFirst \/ NewthoughtFirst

SpecOrder == InitOrder /\ [][NextOrder]_vars

\* C25: the two converters commute: converting the notes and then the
\* newthoughts gives the same text, note numbers included, as converting
\* the newthoughts and then the notes.
C25_ConvertersCommute ==
    pc = "both_done" => html = text /\ NoteIdsIn(html) = NoteIdsIn(text)

\* C25 witness: a newthought with a numbered note inside was converted in
\* both orders.
C25_Witness ==
    /\ pc = "both_done"
    /\ arg = NtOpen \o SnOpen \o <<"a">> \o SnClose \o NtClose
    /\ Contains(html, <<"<span class=\"newthought\">", "<label for=\"">>)
    /\ NoteIdsIn(html) = << <<"s", "n", "-", "1">> >>
    /\ html = text

-----------------------------------------------------------------------------
(* Further properties of convert_sidenotes.                                *)

\* the number at the end of a generated id (sn-3, mn-4)
NoteNumber(id) == StrToInt(SubSeq(id, 4, Len(id)))

\* C26: the counter belongs to one call: every call starts counting from
\* zero, whatever the calls before it, and the numbers given to the n spans
\* a call expands are exactly 1..n, each used once, so the ids generated by
\* one call are distinct.
C26_NumbersOfOneCallAreOneToN ==
    /\ pc = "sub_sn" => sidenote_counter = 0
    /\ pc = "return" =>
           LET ids == NoteIdsIn(html)
               n   == Len(SpansInOrder(arg))
           IN  /\ Len(ids) = n
               /\ sidenote_counter = n
               /\ \A j \in 1..n :
                      Cardinality({k \in 1..n : NoteNumber(ids[k]) = j}) = 1
               /\ \A k1, k2 \in 1..n : ids[k1] = ids[k2] => k1 = k2

\* C26 witness: a second call expanded spans of both kinds and numbered them
\* from 1 again.
C26_Witness ==
    /\ pc = "return"
    /\ calls = 1
    /\ Len(SpansInOrder(arg)) = 3
    /\ sidenote_counter = 3
    /\ \E k \in 1..3 : NoteIdsIn(html)[k] = <<"m", "n", "-", "3">>
    /\ \E k \in 1..3 : NoteIdsIn(html)[k] = <<"s", "n", "-", "1">>

-----------------------------------------------------------------------------
\* _convert_lists, line by line: the loop of the list pass as a state
\* machine, one step per line of the text and one for the return.

ListLines ==
    { <<"-", " ", "a">>,
      <<"-", " ", "b">>,
      <<"1", ".", " ", "c">>,
      <<"2", ".", " ", "d">>,
      <<"x">>,
      <<>>,
      <<"|", " ", "t", " ", "|">>,
      <<"-", " ">>,
      <<" ", " ", "-", " ", "e">> }

ListTexts == { Join(ls, NL) : ls \in SeqsUpTo(ListLines, MaxListLines) }

InitLists ==
    /\ NoBuild
    /\ pc = "scan"
    /\ arg \in ListTexts
    /\ text_lines = Split(arg, NL, -1)
    /\ line_no = 0
    /\ result = ListStart.result
    /\ in_list = ListStart.in_list
    /\ list_kind = ListStart.list_type
    /\ list_items = ListStart.list_items
    /\ text = <<>>
    /\ html = <<>>
    /\ sidenote_counter = 0
    /\ calls = 0
    /\ content = <<>>
    /\ filepath = NoPath
    /\ frontmatter = EmptyDict
    /\ body = <<>>
    /\ error = NoError
    /\ headings = <<>>
    /\ code_blocks = <<>>
    /\ warnings = <<>>
    /\ context = EmptyDict
    /\ toc_html = <<>>
    /\ has_toc = FALSE

\* the scanner's state as the record ListStep works on
ScanState == [result |-> result, in_list |-> in_list, list_type |-> list_kind,
              list_items |-> list_items]

\* the line the loop is about to process
NextLine == text_lines[line_no + 1]

IsBullet(line) == StartsWith(Strip(line), <<"-", " ">>)

IsNumbered(line) == ~IsBullet(line) /\ OlMatch(Strip(line)) # 0

\* one iteration of the loop
ScanLine ==
    /\ \E st \in {ListStep(ScanState, NextLine)} :
          /\ result' = st.result
          /\ in_list' = st.in_list
          /\ list_kind' = st.list_type
          /\ list_items' = st.list_items
    /\ line_no' = line_no + 1
    /\ UNCHANGED <<bdVars, pc, arg, text_lines, text, html, code_blocks, calls,
                   fmVars, snVars, hdVars, pgVars>>

\* the branch of a line that starts with a dash and a space
ScanBullet ==
    /\ pc = "scan"
    /\ line_no < Len(text_lines)
    /\ IsBullet(NextLine)
    /\ ScanLine

\* the branch of a line that matches ol_pattern
ScanNumbered ==
    /\ pc = "scan"
    /\ line_no < Len(text_lines)
    /\ IsNumbered(NextLine)
    /\ ScanLine

\* the branch of any other line
ScanOther ==
    /\ pc = "scan"
    /\ line_no < Len(text_lines)
    /\ ~IsBullet(NextLine)
    /\ ~IsNumbered(NextLine)
    /\ ScanLine

\* after the last line: the list still open is closed, the lines are joined
ReturnLists ==
    /\ pc = "scan"
    /\ line_no = Len(text_lines)
    /\ result' = IF in_list
                 THEN Append(result, _render_list(list_kind, list_items))
                 ELSE result
    /\ text' = Join(result', NL)
    /\ pc' = "returned"
    /\ UNCHANGED <<bdVars, arg, text_lines, line_no, in_list, list_kind,
                   list_items, html, code_blocks, calls, fmVars, snVars,
                   hdVars, pgVars>>

NextLists == ScanBullet \/ ScanNumbered \/ ScanOther \/ ReturnLists

SpecLists == InitLists /\ [][NextLists]_vars

\* The list pass as the specification words it: a line is a list line by
\* how it starts, whatever follows the marker.
ClaimedKind(line) ==
    LET s == LStrip(line, Whitespace)
        d == SkipChars(s, SetOf(Digits), 1)
    IN  IF StartsWith(s, <<"-", " ">>) THEN UL
        ELSE IF d > 1 /\ d + 1 <= Len(s) /\ s[d] = "." /\ s[d + 1] = " "
        THEN OL
        ELSE <<>>

ClaimedItem(line) ==
    LET s == LStrip(line, Whitespace)
        d == SkipChars(s, SetOf(Digits), 1)
    IN  IF ClaimedKind(line) = UL THEN Strip(From(s, 3))
        ELSE Strip(From(s, d + 2))

ClaimedList(kind, items) ==
    <<Tag(kind)>>
    \o [i \in 1..Len(items) |->
           Tag(<<"l", "i">>) \o items[i] \o CloseTag(<<"l", "i">>)]
    \o <<CloseTag(kind)>>

\* the output lines: one list per maximal run of list lines of one kind,
\* placed before the line that ended the run, every other line as it is
RECURSIVE ClaimedLines(_, _, _, _)
ClaimedLines(ls, i, kind, items) ==
    LET closed == IF items = <<>> THEN <<>> ELSE ClaimedList(kind, items)
    IN  IF i > Len(ls) THEN closed
        ELSE LET k == ClaimedKind(ls[i])
             IN  IF k = <<>>
                 THEN closed \o <<ls[i]>> \o ClaimedLines(ls, i + 1, <<>>, <<>>)
                 ELSE IF items = <<>> \/ k = kind
                 THEN ClaimedLines(ls, i + 1, k,
                                   Append(items, ClaimedItem(ls[i])))
                 ELSE closed \o ClaimedLines(ls, i + 1, k,
                                             <<ClaimedItem(ls[i])>>)

\* C27: every maximal run of contiguous lines starting with a dash and a
\* space becomes exactly one ul, every maximal run of lines starting with an
\* integer, a dot and a space exactly one ol, with one li per line of the
\* run in the original order; a run ends at a line that is no list line or
\* at a change of kind, and the list stands before the line that ended it.
C27_EachRunIsOneList ==
    pc = "returned" => text = Join(ClaimedLines(text_lines, 1, <<>>, <<>>), NL)

\* the lines the loop has added in one step
Emitted == SubSeq(result', Len(result) + 1, Len(result'))

\* a step of the scanner adds nothing, the line it read, or the list it was
\* collecting (and then that list is a real one) followed or not by the line
StepEmitsNoEmptyList ==
    \/ Emitted = <<>>
    \/ /\ ~in_list
       /\ pc' = "scan"
       /\ Emitted = <<NextLine>>
    \/ /\ in_list
       /\ list_kind \in {UL, OL}
       /\ list_items # <<>>
       /\ _render_list(list_kind, list_items) # <<>>
       /\ \/ Emitted = <<_render_list(list_kind, list_items)>>
          \/ /\ pc' = "scan"
             /\ Emitted = <<_render_list(list_kind, list_items), NextLine>>

\* C29: at every point of the scan, a list is being collected exactly when
\* its kind is ul or ol and exactly when it has at least one item; so
\* _render_list is never called with no item or no kind, and closing a list
\* never puts an empty list or an empty line into the output.
C29_ScannerInvariant ==
    /\ [](/\ in_list <=> list_kind \in {UL, OL}
          /\ in_list <=> list_items # <<>>
          /\ ~in_list => list_kind = <<>>)
    /\ [][StepEmitsNoEmptyList]_vars

\* C29 witness: a list has been closed by a line of the other kind, another
\* by a line that is no list line, and a third at the end of the text.
C29_Witness ==
    /\ pc = "returned"
    /\ in_list
    /\ text_lines = << <<"-", " ", "a">>, <<"1", ".", " ", "c">>, <<"x">>,
                       <<"-", " ", "b">> >>
    /\ Len(result) = 4

-----------------------------------------------------------------------------
(* _convert_tables on runs too short to be a table.                        *)

NoRunHasTwoLines(lines) ==
    \A a \in RunStarts(lines) : RunEnd(lines, a) = a

\* C28: a run of fewer than 2 pipe-delimited lines is not turned into a
\* table and is emitted as it is: the output line is character for
\* character the input line, leading and trailing whitespace included. So a
\* text whose pipe-delimited lines all stand alone comes out unchanged.
C28_ShortRunEmittedVerbatim ==
    (pc = "paragraphs" /\ NoRunHasTwoLines(Split(arg, NL, -1))) => text = arg

-----------------------------------------------------------------------------
(* render_template and the order of the keys of the context.               *)

\* the contexts that hold the items of ctx in another order
Reordered(ctx) ==
    { [i \in 1..Len(ctx) |-> ctx[p[i]]] : p \in Permutations(1..Len(ctx)) }

\* the items of ctx whose value is a string that holds the token of a key
\* of ctx
ValuesWithToken(ctx) ==
    { i \in 1..Len(ctx) :
        /\ ctx[i].value.kind = "str"
        /\ \E j \in 1..Len(ctx) :
              Contains(StrOf(ctx[i].value), VarToken(ctx[j].key)) }

\* C30: the text inserted as the value of a key is not scanned again: a
\* token inside a substituted value stays literal in the output even when
\* its key is in the context, and so the rendered output is the same
\* whatever the order of the keys of the context.
C30_ValuesNotRescanned ==
    (pc = "rendered" /\ ~HasBlock(arg)) =>
        /\ \A i \in ValuesWithToken(context) :
              Contains(arg, VarToken(context[i].key)) =>
                  Contains(html, StrOf(context[i].value))
        /\ \A other \in Reordered(context) : html = render_content(arg, other)

=============================================================================
